---- MODULE Spec2Model ----
(***************************************************************************)
(* A model of the zpr formatting engine of zhiayang/ztl.                   *)
(*                                                                         *)
(* Two revisions of zpr.h are in the repository and both are modelled:     *)
(*   - src/unnamed/part_001 (zpr 2.5.4): definitions carry the source's    *)
(*     names (parse_fmt_spec, print_string, skip_fmts, ...);               *)
(*   - src/zpr.h (zpr 1.4.0): the same names with the suffix _1_4.         *)
(*                                                                         *)
(* Characters are their ASCII codes, strings are sequences of codes, so    *)
(* that the character arithmetic of the source ('0' + x, c - 0x20,         *)
(* c | 0x20) is computed, not assumed.                                     *)
(***************************************************************************)
EXTENDS Integers, Sequences, FiniteSets, TLC

(***************************************************************************)
(* Characters                                                              *)
(***************************************************************************)
ASCII ==
    << " ", "!", "dquote", "#", "$", "%", "&", "'", "(", ")", "*", "+", ",", "-", ".", "/",
       "0", "1", "2", "3", "4", "5", "6", "7", "8", "9", ":", ";", "<", "=", ">", "?",
       "@", "A", "B", "C", "D", "E", "F", "G", "H", "I", "J", "K", "L", "M", "N", "O",
       "P", "Q", "R", "S", "T", "U", "V", "W", "X", "Y", "Z", "[", "bslash", "]", "^", "_",
       "btick", "a", "b", "c", "d", "e", "f", "g", "h", "i", "j", "k", "l", "m", "n", "o",
       "p", "q", "r", "s", "t", "u", "v", "w", "x", "y", "z", "{", "|", "}", "~" >>

\* the code of a printable character, given as a one-character string
Ord(c) == 31 + (CHOOSE i \in 1..Len(ASCII) : ASCII[i] = c)

\* a string, given as a sequence of one-character strings, as its codes
Str(s) == [i \in 1..Len(s) |-> Ord(s[i])]

CH_NUL    == 0
CH_NL     == 10
CH_SPACE  == Ord(" ")
CH_HASH   == Ord("#")
CH_STAR   == Ord("*")
CH_PLUS   == Ord("+")
CH_MINUS  == Ord("-")
CH_DOT    == Ord(".")
CH_0      == Ord("0")
CH_9      == Ord("9")
CH_A      == Ord("A")
CH_Z      == Ord("Z")
CH_a      == Ord("a")
CH_b      == Ord("b")
CH_c      == Ord("c")
CH_p      == Ord("p")
CH_x      == Ord("x")
CH_OPEN   == Ord("{")
CH_CLOSE  == Ord("}")

IsDigit(c) == CH_0 <= c /\ c <= CH_9

\* c | 0x20 on a char promoted to int (-1 keeps every bit set)
Or0x20(c) == IF c < 0 THEN c ELSE IF (c \div 32) % 2 = 1 THEN c ELSE c + 32

\* conversion of an int to char, kept as a code in 0..255
ToChar(n) == n % 256

Rep(c, n) == [i \in 1..n |-> c]

Min(a, b) == IF a < b THEN a ELSE b
Max(a, b) == IF a > b THEN a ELSE b

(***************************************************************************)
(* tt::str_view                                                            *)
(***************************************************************************)
drop(sv, n)      == IF Len(sv) >= n THEN SubSeq(sv, n + 1, Len(sv)) ELSE << >>
drop_last(sv, n) == IF Len(sv) >= n THEN SubSeq(sv, 1, Len(sv) - n) ELSE sv

(***************************************************************************)
(* format_args                                                             *)
(***************************************************************************)
FMT_FLAG_ZERO_PAD       == 1
FMT_FLAG_ALTERNATE      == 2
FMT_FLAG_PREPEND_PLUS   == 4
FMT_FLAG_PREPEND_SPACE  == 8
FMT_FLAG_HAVE_WIDTH     == 16
FMT_FLAG_HAVE_PRECISION == 32
FMT_FLAG_WIDTH_NEGATIVE == 64

\* flags is the set of the bits that are set
format_args == [specifier |-> -1, flags |-> {}, width |-> -1, precision |-> -1]

zero_pad(args)       == FMT_FLAG_ZERO_PAD \in args.flags
alternate(args)      == FMT_FLAG_ALTERNATE \in args.flags
have_width(args)     == FMT_FLAG_HAVE_WIDTH \in args.flags
have_precision(args) == FMT_FLAG_HAVE_PRECISION \in args.flags
prepend_plus(args)   == FMT_FLAG_PREPEND_PLUS \in args.flags
prepend_space(args)  == FMT_FLAG_PREPEND_SPACE \in args.flags
negative_width(args) == have_width(args) /\ FMT_FLAG_WIDTH_NEGATIVE \in args.flags
positive_width(args) == have_width(args) /\ ~negative_width(args)

set_precision(args, p) ==
    [args EXCEPT !.precision = p, !.flags = @ \cup {FMT_FLAG_HAVE_PRECISION}]

set_width(args, w) ==
    [args EXCEPT !.width = w,
                 !.flags = @ \cup {FMT_FLAG_HAVE_WIDTH}
                             \cup (IF w < 0 THEN {FMT_FLAG_WIDTH_NEGATIVE} ELSE {})]

(***************************************************************************)
(* detail::parse_fmt_spec (2.5.4)                                          *)
(***************************************************************************)
FlagOf(c) ==
    CASE c = CH_0     -> FMT_FLAG_ZERO_PAD
      [] c = CH_HASH  -> FMT_FLAG_ALTERNATE
      [] c = CH_MINUS -> FMT_FLAG_WIDTH_NEGATIVE
      [] c = CH_PLUS  -> FMT_FLAG_PREPEND_PLUS
      [] c = CH_SPACE -> FMT_FLAG_PREPEND_SPACE
      [] OTHER        -> 0

\* the leading run of flag characters: its length
RECURSIVE FlagRun(_, _)
FlagRun(sv, k) ==
    IF k < Len(sv) /\ FlagOf(sv[k + 1]) # 0 THEN FlagRun(sv, k + 1) ELSE k

\* while(sv.size() > k && '0' <= sv[k] && sv[k] <= '9') k++
RECURSIVE DigitRun(_, _)
DigitRun(sv, k) ==
    IF Len(sv) > k /\ IsDigit(sv[k + 1]) THEN DigitRun(sv, k + 1) ELSE k

\* x = 10 * x + (sv[k] - '0') over the first k characters
RECURSIVE DigitValue(_, _)
DigitValue(sv, k) ==
    IF k = 0 THEN 0 ELSE 10 * DigitValue(sv, k - 1) + (sv[k] - CH_0)

\* The parser's state p: what is left of the token (sv), the format_args so
\* far, and whether the width / the precision come from the argument list.
ParseStart(token) ==
    [sv |-> drop_last(drop(token, 1), 1), args |-> format_args,
     need_width |-> FALSE, need_prec |-> FALSE]

\* the flag loop
ParseFlags(p) ==
    LET nf == FlagRun(p.sv, 0)
    IN  [p EXCEPT !.args.flags = {FlagOf(p.sv[i]) : i \in 1..nf},
                  !.sv = drop(p.sv, nf)]

\* a parser that reads one digit of the width
ParseWidth_one_digit(p) ==
    IF Len(p.sv) > 0 /\ IsDigit(p.sv[1])
    THEN [p EXCEPT !.args.flags = @ \cup {FMT_FLAG_HAVE_WIDTH},
                   !.args.width = DigitValue(p.sv, 1),
                   !.sv = drop(p.sv, 1)]
    ELSE p

\* if('0' <= sv[0] && sv[0] <= '9') { ... width ... }
ParseWidth(p) ==
    IF Len(p.sv) > 0 /\ IsDigit(p.sv[1])
    THEN LET k == DigitRun(p.sv, 0)
         IN  [p EXCEPT !.args.flags = @ \cup {FMT_FLAG_HAVE_WIDTH},
                       !.args.width = DigitValue(p.sv, k),
                       !.sv = drop(p.sv, k)]
    ELSE p

\* if(sv.size() >= 2 && sv[0] == '.') { ... precision ... }
ParsePrecision(p) ==
    IF Len(p.sv) >= 2 /\ p.sv[1] = CH_DOT
    THEN LET sv == drop(p.sv, 1)
         IN  IF sv[1] = CH_MINUS
             THEN [p EXCEPT !.sv = drop(sv, DigitRun(sv, 1))]
             ELSE IF IsDigit(sv[1])
             THEN [p EXCEPT !.args.flags = @ \cup {FMT_FLAG_HAVE_PRECISION},
                            !.args.precision = DigitValue(sv, DigitRun(sv, 0)),
                            !.sv = drop(sv, DigitRun(sv, 0))]
             ELSE [p EXCEPT !.sv = sv]
    ELSE p

\* if(!sv.empty()) fmt_args.specifier = sv[0];
ParseSpecifier(p) ==
    IF Len(p.sv) > 0 THEN [p EXCEPT !.args.specifier = p.sv[1]] ELSE p

parse_fmt_spec(token) ==
    ParseSpecifier(ParsePrecision(ParseWidth(ParseFlags(ParseStart(token))))).args

(***************************************************************************)
(* Sink operations: what a renderer hands to its callback.  A renderer is  *)
(* the sequence of the calls it makes: cb(c, n) or cb(ptr, len).           *)
(***************************************************************************)
CbRepeat(c, n) == [kind |-> "repeat", c |-> c, n |-> n, s |-> << >>]
CbRange(s)     == [kind |-> "range", c |-> 0, n |-> Len(s), s |-> s]
CbChar(c)      == [kind |-> "char", c |-> c, n |-> 1, s |-> << >>]

\* the bytes of one call
OpBytes(op) == IF op.kind = "range" THEN op.s ELSE Rep(op.c, op.n)

\* string_appender: every call appends all of its bytes
RECURSIVE string_appender(_)
string_appender(ops) ==
    IF ops = << >> THEN << >> ELSE OpBytes(Head(ops)) \o string_appender(Tail(ops))

(***************************************************************************)
(* Integer types: T is short / unsigned short                              *)
(***************************************************************************)
IntBits == 16
TwoToBits == 2 ^ IntBits
TMin == -(2 ^ (IntBits - 1))
TMax == 2 ^ (IntBits - 1) - 1
UMax == 2 ^ IntBits - 1

\* conversion to the signed type T (modular)
ToSigned(n) == ((n - TMin) % TwoToBits) + TMin
\* static_cast<make_unsigned_t<T>>(x)
make_unsigned(x) == x % TwoToBits

_Absolute(x) == IF x < 0 THEN ToSigned(-x) ELSE x

(***************************************************************************)
(* Digit generators (2.5.4), ZPR_DECIMAL_LOOKUP_TABLE and                  *)
(* ZPR_HEXADECIMAL_LOOKUP_TABLE at their default, 1                        *)
(***************************************************************************)
decimal_lookup_table ==
    Str(<< "0", "0", "0", "1", "0", "2", "0", "3", "0", "4", "0", "5", "0", "6", "0", "7", "0", "8", "0", "9",
           "1", "0", "1", "1", "1", "2", "1", "3", "1", "4", "1", "5", "1", "6", "1", "7", "1", "8", "1", "9",
           "2", "0", "2", "1", "2", "2", "2", "3", "2", "4", "2", "5", "2", "6", "2", "7", "2", "8", "2", "9",
           "3", "0", "3", "1", "3", "2", "3", "3", "3", "4", "3", "5", "3", "6", "3", "7", "3", "8", "3", "9",
           "4", "0", "4", "1", "4", "2", "4", "3", "4", "4", "4", "5", "4", "6", "4", "7", "4", "8", "4", "9",
           "5", "0", "5", "1", "5", "2", "5", "3", "5", "4", "5", "5", "5", "6", "5", "7", "5", "8", "5", "9",
           "6", "0", "6", "1", "6", "2", "6", "3", "6", "4", "6", "5", "6", "6", "6", "7", "6", "8", "6", "9",
           "7", "0", "7", "1", "7", "2", "7", "3", "7", "4", "7", "5", "7", "6", "7", "7", "7", "8", "7", "9",
           "8", "0", "8", "1", "8", "2", "8", "3", "8", "4", "8", "5", "8", "6", "8", "7", "8", "8", "8", "9",
           "9", "0", "9", "1", "9", "2", "9", "3", "9", "4", "9", "5", "9", "6", "9", "7", "9", "8", "9", "9" >>)

hex_lookup_table ==
    Str(<< "0", "0", "0", "1", "0", "2", "0", "3", "0", "4", "0", "5", "0", "6", "0", "7", "0", "8", "0", "9",
           "0", "a", "0", "b", "0", "c", "0", "d", "0", "e", "0", "f", "1", "0", "1", "1", "1", "2", "1", "3",
           "1", "4", "1", "5", "1", "6", "1", "7", "1", "8", "1", "9", "1", "a", "1", "b", "1", "c", "1", "d",
           "1", "e", "1", "f", "2", "0", "2", "1", "2", "2", "2", "3", "2", "4", "2", "5", "2", "6", "2", "7",
           "2", "8", "2", "9", "2", "a", "2", "b", "2", "c", "2", "d", "2", "e", "2", "f", "3", "0", "3", "1",
           "3", "2", "3", "3", "3", "4", "3", "5", "3", "6", "3", "7", "3", "8", "3", "9", "3", "a", "3", "b",
           "3", "c", "3", "d", "3", "e", "3", "f", "4", "0", "4", "1", "4", "2", "4", "3", "4", "4", "4", "5",
           "4", "6", "4", "7", "4", "8", "4", "9", "4", "a", "4", "b", "4", "c", "4", "d", "4", "e", "4", "f",
           "5", "0", "5", "1", "5", "2", "5", "3", "5", "4", "5", "5", "5", "6", "5", "7", "5", "8", "5", "9",
           "5", "a", "5", "b", "5", "c", "5", "d", "5", "e", "5", "f", "6", "0", "6", "1", "6", "2", "6", "3",
           "6", "4", "6", "5", "6", "6", "6", "7", "6", "8", "6", "9", "6", "a", "6", "b", "6", "c", "6", "d",
           "6", "e", "6", "f", "7", "0", "7", "1", "7", "2", "7", "3", "7", "4", "7", "5", "7", "6", "7", "7",
           "7", "8", "7", "9", "7", "a", "7", "b", "7", "c", "7", "d", "7", "e", "7", "f", "8", "0", "8", "1",
           "8", "2", "8", "3", "8", "4", "8", "5", "8", "6", "8", "7", "8", "8", "8", "9", "8", "a", "8", "b",
           "8", "c", "8", "d", "8", "e", "8", "f", "9", "0", "9", "1", "9", "2", "9", "3", "9", "4", "9", "5",
           "9", "6", "9", "7", "9", "8", "9", "9", "9", "a", "9", "b", "9", "c", "9", "d", "9", "e", "9", "f",
           "a", "0", "a", "1", "a", "2", "a", "3", "a", "4", "a", "5", "a", "6", "a", "7", "a", "8", "a", "9",
           "a", "a", "a", "b", "a", "c", "a", "d", "a", "e", "a", "f", "b", "0", "b", "1", "b", "2", "b", "3",
           "b", "4", "b", "5", "b", "6", "b", "7", "b", "8", "b", "9", "b", "a", "b", "b", "b", "c", "b", "d",
           "b", "e", "b", "f", "c", "0", "c", "1", "c", "2", "c", "3", "c", "4", "c", "5", "c", "6", "c", "7",
           "c", "8", "c", "9", "c", "a", "c", "b", "c", "c", "c", "d", "c", "e", "c", "f", "d", "0", "d", "1",
           "d", "2", "d", "3", "d", "4", "d", "5", "d", "6", "d", "7", "d", "8", "d", "9", "d", "a", "d", "b",
           "d", "c", "d", "d", "d", "e", "d", "f", "e", "0", "e", "1", "e", "2", "e", "3", "e", "4", "e", "5",
           "e", "6", "e", "7", "e", "8", "e", "9", "e", "a", "e", "b", "e", "c", "e", "d", "e", "e", "e", "f",
           "f", "0", "f", "1", "f", "2", "f", "3", "f", "4", "f", "5", "f", "6", "f", "7", "f", "8", "f", "9",
           "f", "a", "f", "b", "f", "c", "f", "d", "f", "e", "f", "f" >>)

\* copy(dst, &lookup_table[i * 2]): the two characters at i * 2
Lookup2(table, i) == << table[2 * i + 1], table[2 * i + 2] >>

hex_digit(x) == IF 0 <= x /\ x <= 9 THEN CH_0 + x ELSE CH_a + x - 10

\* while(value >= 0x100) { copy(ptr -= 2, ...); value /= 0x100; }
RECURSIVE print_hex_integer(_)
print_hex_integer(value) ==
    IF value >= 256
    THEN print_hex_integer(value \div 256) \o Lookup2(hex_lookup_table, value % 256)
    ELSE IF value < 16 THEN << hex_digit(value) >>
    ELSE Lookup2(hex_lookup_table, value)

\* do { *(--ptr) = '0' + (value & 1); value >>= 1; } while(value > 0);
RECURSIVE print_binary_integer(_)
print_binary_integer(value) ==
    LET d    == ToChar(CH_0 + (value % 2))
        rest == value \div 2
    IN  IF rest > 0 THEN print_binary_integer(rest) \o << d >> ELSE << d >>

\* the digits of a value that is not negative
RECURSIVE DecimalLoop(_)
DecimalLoop(value) ==
    IF value >= 100
    THEN DecimalLoop(value \div 100) \o Lookup2(decimal_lookup_table, value % 100)
    ELSE IF value < 10 THEN << ToChar(value + CH_0) >>
    ELSE Lookup2(decimal_lookup_table, value)

\* T is signed when isSigned: neg = (value < 0); if(neg) value = -value;
print_decimal_integer(value, isSigned) ==
    LET neg == isSigned /\ value < 0
        v   == IF neg THEN ToSigned(-value) ELSE value
        ds  == IF v < 0 THEN << ToChar(v + CH_0) >> ELSE DecimalLoop(v)
    IN  IF neg THEN << CH_MINUS >> \o ds ELSE ds

print_integer(value, base, isSigned) ==
    IF base = 2 THEN print_binary_integer(value)
    ELSE IF base = 16 THEN print_hex_integer(value)
    ELSE print_decimal_integer(value, isSigned)

(***************************************************************************)
(* detail::print_string (2.5.4)                                            *)
(***************************************************************************)
print_string(str, len, args) ==
    LET string_length == IF have_precision(args) THEN Min(args.precision, len) ELSE len
        padding_width == args.width - string_length
        pad == CbRepeat(IF zero_pad(args) THEN CH_0 ELSE CH_SPACE, padding_width)
    IN  (IF positive_width(args) /\ padding_width > 0 THEN << pad >> ELSE << >>)
        \o << CbRange(SubSeq(str, 1, string_length)) >>
        \o (IF negative_width(args) /\ padding_width > 0 THEN << pad >> ELSE << >>)

(***************************************************************************)
(* detail::__int_formatter<T>::print (2.5.4)                               *)
(***************************************************************************)
ZPR_HEX_0X_RESPECTS_UPPERCASE == 0

__int_formatter_print(x, isSigned, args0) ==
    LET isp  == args0.specifier = CH_p
        base == IF Or0x20(args0.specifier) = CH_x THEN 16
                ELSE IF args0.specifier = CH_b THEN 2
                ELSE IF isp THEN 16 ELSE 10
        args == IF isp
                THEN [args0 EXCEPT !.specifier = CH_x,
                                   !.flags = @ \cup {FMT_FLAG_ALTERNATE}]
                ELSE args0
        raw  == IF ~isSigned THEN print_integer(x, base, FALSE)
                ELSE IF base = 16 THEN print_integer(make_unsigned(x), base, FALSE)
                ELSE print_integer(_Absolute(x), base, TRUE)
        upper == CH_A <= args.specifier /\ args.specifier <= CH_Z
        digits == IF upper THEN [i \in 1..Len(raw) |-> ToChar(raw[i] - 32)] ELSE raw
        digits_len == Len(digits)
        sign == IF prepend_plus(args) THEN << CH_PLUS >>
                ELSE IF prepend_space(args) THEN << CH_SPACE >>
                ELSE IF x < 0 /\ base = 10 THEN << CH_MINUS >>
                ELSE << >>
        radix == IF base # 10 /\ alternate(args)
                 THEN << CH_0, IF ZPR_HEX_0X_RESPECTS_UPPERCASE # 0
                               THEN args.specifier ELSE Or0x20(args.specifier) >>
                 ELSE << >>
        prefix == sign \o radix
        prefix_len == Len(prefix)
        prefix_digits_length == Len(radix)
        output_length_with_precision ==
            IF have_precision(args) THEN Max(args.precision, digits_len) ELSE digits_len
        total_digits_length == prefix_digits_length + digits_len
        normal_length == prefix_len + digits_len
        length_with_precision == prefix_len + output_length_with_precision
        padding_width == args.width - length_with_precision
        zeropad_width == args.width - normal_length
        precpad_width == args.precision - total_digits_length
        use_precision == have_precision(args) /\ precpad_width > 0
        zp0 == zero_pad(args) /\ positive_width(args) /\ ~have_precision(args)
        use_zero_pad  == zp0 /\ zeropad_width > 0
        use_left_pad  == ~zp0 /\ positive_width(args) /\ padding_width > 0
        use_right_pad == ~zp0 /\ negative_width(args) /\ padding_width > 0
    IN  IF args0.specifier = CH_c
        THEN print_string(<< ToChar(x) >>, 1, args0)
        ELSE (IF use_left_pad THEN << CbRepeat(CH_SPACE, padding_width) >> ELSE << >>)
             \o << CbRange(prefix) >>
             \o (IF use_zero_pad THEN << CbRepeat(CH_0, zeropad_width) >> ELSE << >>)
             \o (IF use_precision THEN << CbRepeat(CH_0, precpad_width) >> ELSE << >>)
             \o << CbRange(digits) >>
             \o (IF use_right_pad THEN << CbRepeat(CH_SPACE, padding_width) >> ELSE << >>)

(***************************************************************************)
(* zpr 1.4.0 (src/zpr.h): parse_fmt_spec, the digit generators, the        *)
(* integer formatter and print_string                                      *)
(***************************************************************************)
\* '*' takes the width from the argument list
ParseWidth_1_4(p) ==
    IF Len(p.sv) > 0 /\ p.sv[1] = CH_STAR
    THEN [p EXCEPT !.need_width = TRUE,
                   !.sv = drop(p.sv, 1),
                   !.args.flags = @ \cup {FMT_FLAG_HAVE_WIDTH}]
    ELSE ParseWidth(p)

\* after the '.', sv[0] of an exhausted view is the token's closing brace
ParsePrecision_1_4(p) ==
    IF Len(p.sv) > 0 /\ p.sv[1] = CH_DOT
    THEN LET sv == drop(p.sv, 1)
         IN  IF Len(sv) > 0 /\ sv[1] = CH_STAR
             THEN [p EXCEPT !.need_prec = TRUE,
                            !.sv = drop(sv, 1),
                            !.args.flags = @ \cup {FMT_FLAG_HAVE_PRECISION}]
             ELSE IF Len(sv) > 0 /\ sv[1] = CH_MINUS
             THEN [p EXCEPT !.sv = drop(sv, DigitRun(sv, 1))]
             ELSE IF Len(sv) > 0 /\ IsDigit(sv[1])
             THEN [p EXCEPT !.args.flags = @ \cup {FMT_FLAG_HAVE_PRECISION},
                            !.args.precision = DigitValue(sv, DigitRun(sv, 0)),
                            !.sv = drop(sv, DigitRun(sv, 0))]
             ELSE [p EXCEPT !.sv = sv]
    ELSE p

\* returns the format_args and whether a width / a precision is taken from
\* the argument list
parse_fmt_spec_1_4(token) ==
    LET p == ParseSpecifier(ParsePrecision_1_4(ParseWidth_1_4(ParseFlags(ParseStart(token)))))
    IN  [args |-> p.args, need_width |-> p.need_width, need_prec |-> p.need_prec]

\* while(value >= 10) { two digits of value % 100; value /= 100; }
\* if(value > 0) { one digit }
RECURSIVE DecimalLoop_1_4(_)
DecimalLoop_1_4(value) ==
    IF value >= 10
    THEN DecimalLoop_1_4(value \div 100) \o Lookup2(decimal_lookup_table, value % 100)
    ELSE IF value > 0 THEN << ToChar(CH_0 + (value % 10)) >>
    ELSE << >>

print_decimal_integer_1_4(value, isSigned) ==
    LET neg == isSigned /\ value < 0
        v   == IF neg THEN ToSigned(-value) ELSE value
        ds  == DecimalLoop_1_4(v)
    IN  IF neg THEN << CH_MINUS >> \o ds ELSE ds

hex_digit_1_4(x) == IF 0 <= x /\ x <= 9 THEN CH_0 + x ELSE CH_a + x

RECURSIVE print_hex_integer_1_4(_)
print_hex_integer_1_4(value) ==
    IF value >= 16
    THEN print_hex_integer_1_4(value \div 256) \o Lookup2(hex_lookup_table, value % 256)
    ELSE IF value > 0 THEN << ToChar(hex_digit_1_4(value % 16)) >>
    ELSE << >>

\* while(value > 0) { '0' + (value & 1); value >>= 1; }
RECURSIVE print_binary_integer_1_4(_)
print_binary_integer_1_4(value) ==
    IF value > 0
    THEN print_binary_integer_1_4(value \div 2) \o << ToChar(CH_0 + (value % 2)) >>
    ELSE << >>

print_integer_1_4(value, base, isSigned) ==
    IF base = 2 THEN print_binary_integer_1_4(value)
    ELSE IF base = 16 THEN print_hex_integer_1_4(value)
    ELSE print_decimal_integer_1_4(value, isSigned)

print_string_1_4(str, len, args) ==
    LET string_length == IF have_precision(args) THEN Min(args.precision, len) ELSE len
        padding_width == args.width - string_length
        pad == CbRepeat(CH_SPACE, padding_width)
    IN  (IF positive_width(args) /\ padding_width > 0 THEN << pad >> ELSE << >>)
        \o << CbRange(SubSeq(str, 1, string_length)) >>
        \o (IF negative_width(args) /\ padding_width > 0 THEN << pad >> ELSE << >>)

toupper(c) == IF CH_a <= c /\ c <= Ord("z") THEN c - 32 ELSE c

\* print_formatter<T>::print for the integral types
print_formatter_integral_1_4(x, isSigned, args0) ==
    LET isp  == args0.specifier = CH_p
        base == IF Or0x20(args0.specifier) = CH_x THEN 16
                ELSE IF args0.specifier = CH_b THEN 2
                ELSE IF isp THEN 16 ELSE 10
        args == IF isp
                THEN [args0 EXCEPT !.specifier = CH_x,
                                   !.flags = @ \cup {FMT_FLAG_ALTERNATE}]
                ELSE args0
        raw  == IF ~isSigned THEN print_integer_1_4(x, base, FALSE)
                ELSE IF base = 16 THEN print_integer_1_4(make_unsigned(x), base, FALSE)
                ELSE print_integer_1_4(_Absolute(x), base, TRUE)
        upper == CH_A <= args.specifier /\ args.specifier <= CH_Z
        digits == IF upper THEN [i \in 1..Len(raw) |-> toupper(raw[i])] ELSE raw
        digits_len == Len(digits)
        sign == IF prepend_plus(args) THEN << CH_PLUS >>
                ELSE IF prepend_space(args) THEN << CH_SPACE >>
                ELSE IF x < 0 /\ base = 10 THEN << CH_MINUS >>
                ELSE << >>
        radix == IF base # 10 /\ alternate(args)
                 THEN << CH_0, IF ZPR_HEX_0X_RESPECTS_UPPERCASE # 0
                               THEN args.specifier ELSE Or0x20(args.specifier) >>
                 ELSE << >>
        prefix == sign \o radix
        prefix_len == Len(prefix)
        prefix_digits_length == Len(radix)
        output_length_with_precision ==
            IF have_precision(args) THEN Max(args.precision, digits_len) ELSE digits_len
        total_digits_length == prefix_digits_length + digits_len
        normal_length == prefix_len + digits_len
        length_with_precision == prefix_len + output_length_with_precision
        padding_width == args.width - length_with_precision
        zeropad_width == args.width - normal_length
        precpad_width == args.precision - total_digits_length
        use_precision == have_precision(args) /\ precpad_width > 0
        zp0 == zero_pad(args) /\ positive_width(args) /\ ~have_precision(args)
        use_zero_pad  == zp0 /\ zeropad_width > 0
        use_left_pad  == ~zp0 /\ positive_width(args) /\ padding_width > 0
        use_right_pad == ~zp0 /\ negative_width(args) /\ padding_width > 0
    IN  (IF use_left_pad THEN << CbRepeat(CH_SPACE, padding_width) >> ELSE << >>)
        \o << CbRange(prefix) >>
        \o (IF use_zero_pad THEN << CbRepeat(CH_0, zeropad_width) >> ELSE << >>)
        \o (IF use_precision THEN << CbRepeat(CH_0, precpad_width) >> ELSE << >>)
        \o << CbRange(digits) >>
        \o (IF use_right_pad THEN << CbRepeat(CH_SPACE, padding_width) >> ELSE << >>)

(***************************************************************************)
(* print_formatter<const char*>::print: print_string(x, strlen(x), args)   *)
(***************************************************************************)
print_formatter_cstr(x, args) == print_string(x, Len(x), args)

(***************************************************************************)
(* Runtime width and precision.  A wrapped argument x is [arg, width,      *)
(* prec]; its arg is [isstr, str, v, sgn]: a C string or a short /         *)
(* unsigned short.                                                         *)
(***************************************************************************)
\* detail::print_one(cb, fmt_args, value): the formatter of the value's type
print_one_of(arg, fmt_args) ==
    IF arg.isstr THEN print_formatter_cstr(arg.str, fmt_args)
    ELSE __int_formatter_print(arg.v, arg.sgn, fmt_args)

\* print_formatter<detail::__fmtarg_w<T>>::print
print_formatter_fmtarg_w(x, args) ==
    print_one_of(x.arg, set_width(args, x.width))

\* print_formatter<detail::__fmtarg_wp<T>>::print
print_formatter_fmtarg_wp(x, args) ==
    print_one_of(x.arg, set_precision(set_width(args, x.width), x.prec))

\* 1.4.0, the lambda of the '*' width: fmt_args.width = width;
\* fmt_args.flags |= FMT_FLAG_HAVE_WIDTH;
dynamic_width_1_4(fmt_args, width) ==
    [fmt_args EXCEPT !.width = width, !.flags = @ \cup {FMT_FLAG_HAVE_WIDTH}]

print_one_of_1_4(arg, fmt_args) ==
    IF arg.isstr THEN print_string_1_4(arg.str, Len(arg.str), fmt_args)
    ELSE print_formatter_integral_1_4(arg.v, arg.sgn, fmt_args)

(***************************************************************************)
(* State                                                                   *)
(***************************************************************************)
(***************************************************************************)
(* The drivers.  A call is a record s: ver, the format string's memory fmt *)
(* (its len characters and the terminating NUL of the literal), the        *)
(* arguments args, the scan positions beg and end (offsets from fmt), the  *)
(* argument cursor idx, the bytes the callback received (out), and the     *)
(* arguments each specifier rendered (log).                                *)
(***************************************************************************)
At(s, p) == s.fmt[p + 1]

\* cb(begin, end) on the format string
Range(s, b, e) == SubSeq(s.fmt, b + 1, e)

\* while(end[0] && end[0] != '}') end++;
RECURSIVE ScanToClose(_, _)
ScanToClose(s, e) ==
    IF At(s, e) # CH_NUL /\ At(s, e) # CH_CLOSE THEN ScanToClose(s, e + 1) ELSE e

\* the loop condition of both drivers
LoopCond(s) == s.end <= s.len /\ At(s, s.end) # CH_NUL

\* the arguments are of type short
print_one(value, fmt_args) == string_appender(__int_formatter_print(value, TRUE, fmt_args))

\* the state a call starts in
Start(ver, fmt, args) ==
    [ver |-> ver, fmt0 |-> fmt, args |-> args, pc |-> "run", idx |-> 0,
     out |-> << >>, log |-> << >>,
     fmt |-> fmt \o << CH_NUL >>, len |-> Len(fmt), beg |-> 0, end |-> 0]

\* detail::print_one for an argument that is a short, a std::string or a
\* __forward_helper (defined with the forwarded calls)
RECURSIVE print_one_typed(_, _)

\* one iteration of the loop of skip_fmts<CallbackFn, T> (2.5.4) for the argument
\* args[idx + 1], or its return when the loop condition fails; typed: the
\* arguments carry their type, otherwise they are shorts
skip_fmts_of(s, typed) ==
    IF ~LoopCond(s) THEN [s EXCEPT !.idx = @ + 1]
    ELSE IF At(s, s.end) = CH_OPEN
    THEN LET flushed == s.out \o Range(s, s.beg, s.end)
             e2 == ScanToClose(s, s.end)
         IN  IF At(s, s.end + 1) = CH_OPEN
             THEN [s EXCEPT !.out = flushed \o << CH_OPEN >>,
                            !.end = s.end + 2, !.beg = s.end + 2]
             ELSE IF At(s, e2) = CH_NUL
             THEN [s EXCEPT !.out = flushed, !.end = e2, !.idx = @ + 1]
             ELSE [s EXCEPT !.out = flushed \o
                                (IF typed
                                 THEN print_one_typed(s.args[s.idx + 1],
                                        parse_fmt_spec(Range(s, s.end, e2 + 1)))
                                 ELSE print_one(s.args[s.idx + 1],
                                        parse_fmt_spec(Range(s, s.end, e2 + 1)))),
                            !.log = Append(@, [at |-> s.idx, w |-> -1, p |-> -1, v |-> s.idx]),
                            !.end = e2 + 1, !.beg = e2 + 1, !.idx = @ + 1]
    ELSE IF At(s, s.end) = CH_CLOSE
    THEN LET e2 == IF At(s, s.end + 1) = CH_CLOSE THEN s.end + 2 ELSE s.end + 1
         IN  [s EXCEPT !.out = @ \o Range(s, s.beg, s.end + 1), !.end = e2, !.beg = e2]
    ELSE [s EXCEPT !.end = @ + 1]

\* a scan that stays on a plain-text character
skip_fmts_stuck(s) ==
    IF LoopCond(s) /\ At(s, s.end) \notin {CH_OPEN, CH_CLOSE}
    THEN s
    ELSE skip_fmts_of(s, FALSE)

\* the arguments are of type short
skip_fmts(s) == skip_fmts_of(s, FALSE)

\* the end of detail::print (2.5.4): cb(st.beg, st.len - (st.beg - st.fmt))
print_flush(s) ==
    [s EXCEPT !.out = @ \o Range(s, s.beg, s.len), !.pc = "done"]

\* detail::print(cb, sv, args...) for arguments of type short, run to its
\* end: the bytes it wrote
RECURSIVE print_loop(_)
print_loop(s) ==
    IF s.idx < Len(s.args) THEN print_loop(skip_fmts(s)) ELSE print_flush(s).out

\* an erased print that leaves the final flush out
print_erased_unflushed(sv, values) ==
    LET RECURSIVE run(_)
        run(s) == IF s.idx < Len(s.args) THEN run(skip_fmts(s)) ELSE s.out
    IN  run(Start("2.5.4", sv, values))

\* detail::print_erased(cb, sv, args, num_args): the values are shorts
print_erased(sv, values) == print_loop(Start("2.5.4", sv, values))

\* print_formatter<detail::__forward_helper<Args...>>::print
print_formatter_forward(fwd, args) == print_erased(fwd.fmt, fwd.values)

\* zpr::sprint(fmt, args...): the std::string it returns
sprint(fmt, args) == print_loop(Start("2.5.4", fmt, args))

print_one_typed(value, fmt_args) ==
    IF value.type = "forward" THEN print_formatter_forward(value, fmt_args)
    ELSE IF value.type = "string"
    THEN string_appender(print_string(value.str, Len(value.str), fmt_args))
    ELSE print_one(value.v, fmt_args)

\* detail::print(cb, sv, args...) for arguments of these types
RECURSIVE print_loop_typed(_)
print_loop_typed(s) ==
    IF s.idx < Len(s.args)
    THEN print_loop_typed(skip_fmts_of(s, TRUE))
    ELSE print_flush(s).out

missing_width_and_prec == Str(<< "<", "m", "i", "s", "s", "i", "n", "g", " ", "w", "i", "d", "t", "h", " ", "a", "n", "d", " ", "p", "r", "e", "c", ">" >>)
missing_width == Str(<< "<", "m", "i", "s", "s", "i", "n", "g", " ", "w", "i", "d", "t", "h", ">" >>)
missing_prec == Str(<< "<", "m", "i", "s", "s", "i", "n", "g", " ", "p", "r", "e", "c", ">" >>)
missing_value == Str(<< "<", "m", "i", "s", "s", "i", "n", "g", " ", "v", "a", "l", "u", "e", ">" >>)

\* a driver whose cursor advances by one whatever the specifier took
tup_idx_advance_stuck(need_width, need_prec) == 1

\* by how much a specifier advances tup_idx
tup_idx_advance(need_width, need_prec) ==
    IF need_width /\ need_prec THEN 3
    ELSE IF need_width \/ need_prec THEN 2
    ELSE 1

print_one_1_4(value, fmt_args) ==
    string_appender(print_formatter_integral_1_4(value, TRUE, fmt_args))

\* the specifier's branch of detail::print (1.4.0): visit_three, visit_two or
\* visit_one at tup_idx, or the sentinel when the tuple is too small.  The
\* branch takes n arguments: the width, the precision, the value.
visit_1_4(s, fmts) ==
    LET size == Len(s.args)
        i    == s.idx
        nw   == fmts.need_width
        np   == fmts.need_prec
        n    == (IF nw THEN 1 ELSE 0) + (IF np THEN 1 ELSE 0) + 1
        wi   == IF nw THEN i ELSE -1
        pi   == IF np THEN (IF nw THEN i + 1 ELSE i) ELSE -1
        vi   == i + n - 1
        a    == [fmts.args EXCEPT
                    !.width = IF nw THEN s.args[wi + 1] ELSE @,
                    !.precision = IF np THEN s.args[pi + 1] ELSE @,
                    !.flags = @ \cup (IF nw THEN {FMT_FLAG_HAVE_WIDTH} ELSE {})
                                \cup (IF np THEN {FMT_FLAG_HAVE_PRECISION} ELSE {})]
        sentinel == IF nw /\ np THEN missing_width_and_prec
                    ELSE IF nw THEN missing_width
                    ELSE IF np THEN missing_prec
                    ELSE missing_value
    IN  IF size < n THEN [s EXCEPT !.out = @ \o sentinel]
        ELSE IF i + n <= size
        THEN [s EXCEPT !.out = @ \o print_one_1_4(s.args[vi + 1], a),
                       !.log = Append(@, [at |-> i, w |-> wi, p |-> pi, v |-> vi])]
        ELSE s

\* one iteration of the loop of detail::print (1.4.0), or its final flush when
\* the loop condition fails
print_1_4(s) ==
    IF ~LoopCond(s)
    THEN [s EXCEPT !.out = @ \o Range(s, s.beg, s.end), !.pc = "done"]
    ELSE IF At(s, s.end) = CH_OPEN
    THEN LET flushed == s.out \o Range(s, s.beg, s.end)
             e2 == ScanToClose(s, s.end)
             fmts == parse_fmt_spec_1_4(Range(s, s.end, e2 + 1))
         IN  IF At(s, s.end + 1) = CH_OPEN
             THEN [s EXCEPT !.out = flushed \o << CH_OPEN >>,
                            !.end = s.end + 2, !.beg = s.end + 2]
             ELSE IF At(s, e2) = CH_NUL
             THEN [s EXCEPT !.out = flushed, !.end = e2, !.pc = "done"]
             ELSE [visit_1_4([s EXCEPT !.out = flushed], fmts) EXCEPT
                            !.idx = @ + tup_idx_advance(fmts.need_width, fmts.need_prec),
                            !.end = e2 + 1, !.beg = e2 + 1]
    ELSE IF At(s, s.end) = CH_CLOSE
    THEN LET e2 == IF At(s, s.end + 1) = CH_CLOSE THEN s.end + 2 ELSE s.end + 1
         IN  [s EXCEPT !.out = @ \o Range(s, s.beg, s.end) \o << CH_CLOSE >>,
                       !.end = e2, !.beg = e2]
    ELSE [s EXCEPT !.end = @ + 1]

(***************************************************************************)
(* detail::buffer_appender.  b is the sink: cap, len and the memory at     *)
(* buf, which continues past cap (b.mem has cells beyond the capacity);    *)
(* b.hi is the highest index written so far, -1 when none.                 *)
(***************************************************************************)
UNWRITTEN == -1

\* this->buf[this->len++] = c
buffer_store(b, c) ==
    [b EXCEPT !.mem = [i \in DOMAIN b.mem |-> IF i = b.len + 1 THEN c ELSE b.mem[i]],
              !.len = @ + 1,
              !.hi = Max(@, b.len)]

buffer_remaining(b, n) == Min(b.cap - b.len, n)

\* a sink that stores without looking at the capacity
buffer_appender_char_unchecked(b, c) == buffer_store(b, c)

\* operator() (char c)
buffer_appender_char(b, c) ==
    IF b.len < b.cap THEN buffer_store(b, c) ELSE b

\* operator() (tt::str_view sv): memmove of remaining(sv.size()) bytes
buffer_appender_range(b, sv) ==
    LET l == buffer_remaining(b, Len(sv))
    IN  [b EXCEPT !.mem = [i \in DOMAIN b.mem |->
                        IF b.len < i /\ i <= b.len + l THEN sv[i - b.len] ELSE b.mem[i]],
                  !.len = @ + l,
                  !.hi = IF l > 0 THEN Max(@, b.len + l - 1) ELSE @]

\* operator() (char c, size_t n): for(i = 0; i < this->remaining(n); i++) ...
RECURSIVE buffer_appender_repeat(_, _, _, _)
buffer_appender_repeat(b, c, n, i) ==
    IF i < buffer_remaining(b, n)
    THEN buffer_appender_repeat(buffer_store(b, c), c, n, i + 1)
    ELSE b

(***************************************************************************)
(* detail::file_appender<Limit, Newline>.  f is the sink: buf (Limit + 1   *)
(* cells), ptr (as ptr - buf), written, and the fwrite calls the stream    *)
(* received, in order.                                                     *)
(***************************************************************************)
\* flush(false)
file_flush(f, Limit, Newline) ==
    IF f.ptr < Limit
    THEN IF Newline THEN [f EXCEPT !.buf[f.ptr + 1] = CH_NL] ELSE f
    ELSE [f EXCEPT !.stream = Append(@, SubSeq(f.buf, 1, f.ptr)),
                   !.written = @ + f.ptr,
                   !.ptr = 0]

\* flush(true), from the destructor
file_flush_last(f, Limit, Newline) ==
    IF ~Newline
    THEN [f EXCEPT !.stream = Append(@, SubSeq(f.buf, 1, f.ptr)),
                   !.written = @ + f.ptr,
                   !.ptr = 0]
    ELSE [f EXCEPT !.stream = Append(@, SubSeq(f.buf, 1, f.ptr + 1)),
                   !.written = @ + f.ptr + 1,
                   !.ptr = 0]

\* operator() (char c)
file_appender_char(f, c, Limit, Newline) ==
    file_flush([f EXCEPT !.buf[f.ptr + 1] = c, !.ptr = @ + 1], Limit, Newline)

\* operator() (const char* begin, size_t len); sv is what remains to copy
RECURSIVE file_appender_range(_, _, _, _)
file_appender_range(f, sv, Limit, Newline) ==
    IF Len(sv) > 0
    THEN LET x == Min(Len(sv), Limit - f.ptr)
             g == [f EXCEPT !.buf = [i \in DOMAIN f.buf |->
                                IF f.ptr < i /\ i <= f.ptr + x THEN sv[i - f.ptr]
                                ELSE f.buf[i]],
                            !.ptr = @ + x]
         IN  file_appender_range(file_flush(g, Limit, Newline), drop(sv, x), Limit, Newline)
    ELSE f

\* operator() (char c, size_t n)
file_appender_repeat(f, c, n, Limit, Newline) ==
    file_appender_range(f, Rep(c, n), Limit, Newline)

(***************************************************************************)
(* detail::callback_appender.  k is the sink: len, newline, and the calls  *)
(* (the bytes of each) made to the user's callback.                        *)
(***************************************************************************)
\* operator() (char c)
callback_appender_char(k, c) ==
    [k EXCEPT !.calls = Append(@, << c >>), !.len = @ + 1]

\* operator() (const char* begin, size_t len)
callback_appender_range(k, sv) ==
    [k EXCEPT !.calls = Append(@, sv), !.len = @ + Len(sv)]

\* operator() (char c, size_t n): one call of the callback per character
callback_appender_repeat(k, c, n) ==
    [k EXCEPT !.calls = @ \o [i \in 1..n |-> << c >>], !.len = @ + n]

\* ~callback_appender()
callback_appender_destroy(k) ==
    IF k.newline THEN [k EXCEPT !.calls = Append(@, << CH_NL >>)] ELSE k

VARIABLES
    r_kind,     \* which renderer a rendering call ran: "none", "int", "str", "int_1_4"
    r_in,       \* its inputs: the value, its signedness, the specifier token, the string
    r_out,      \* the callback calls it made, in order
    d_call,     \* per formatting call: ver, fmt0, args, pc, idx, out, log, and
                \* mix: whether it took a step while another call was running
    d_st,       \* per formatting call: its local scan state (fmt, len, beg, end)
    b_sink,     \* the fixed-capacity sink: pc, cap, len, mem, hi
    b_ref,      \* the writes made to it, each untruncated
    f_sink,     \* the buffered-stream sink: pc, newline, buf, ptr, written, stream
    f_ref,      \* the writes made to it
    k_sink,     \* the callback sink of a cprint / cprintln call: pc, newline, len,
                \* and the calls the user's callback received, in order
    k_ret,      \* what the call returned, -1 before it returns
    z_res,      \* the zst::Result objects: per object its state and payload
    q_wait,     \* a zmt::wait_queue and the threads that use it
    t_pool      \* a zmt::ThreadPool, its workers and the thread that owns it

r_vars == << r_kind, r_in, r_out >>
d_vars == << d_call, d_st >>
b_vars == << b_sink, b_ref >>
f_vars == << f_sink, f_ref >>
k_vars == << k_sink, k_ret >>
z_vars == << z_res >>
q_vars == << q_wait >>
t_vars == << t_pool >>

vars == << r_kind, r_in, r_out, d_call, d_st, b_sink, b_ref, f_sink, f_ref, k_sink, k_ret,
          z_res, q_wait, t_pool >>

(***************************************************************************)
(* Inputs of the rendering calls                                           *)
(***************************************************************************)
MaxMag   == 1
MaxWidth == 8
MaxPrec  == 3

SignedValues ==
    (-MaxMag..MaxMag) \cup {TMin, -1234, -100, 99, 100, 1234, TMax}
UnsignedValues ==
    (0..MaxMag) \cup {10, 15, 16, 255, 256, 43981, UMax}

\* the decimal digits of n >= 0, as a format string's author writes them
RECURSIVE DecStr(_)
DecStr(n) == IF n < 10 THEN << CH_0 + n >> ELSE DecStr(n \div 10) \o << CH_0 + (n % 10) >>

FlagChars == << CH_0, CH_HASH, CH_MINUS, CH_PLUS, CH_SPACE >>
FlagSeqs == { SelectSeq(FlagChars, LAMBDA c : c \in S) : S \in SUBSET {CH_0, CH_HASH, CH_MINUS, CH_PLUS, CH_SPACE} }

Widths == {-1} \cup (1..MaxWidth)
Precs  == {-1} \cup (0..MaxPrec)
IntTypes == {-1, CH_x, Ord("X"), CH_b, CH_c, CH_p}
IntTypes_1_4 == {-1, CH_x, Ord("X"), CH_b}
StrTypes == {-1, Ord("s")}

\* the token {[flags][width][.precision][type]}; -1 stands for an absent part
Token(fl, w, p, t) ==
    << CH_OPEN >> \o fl
    \o (IF w >= 0 THEN DecStr(w) ELSE << >>)
    \o (IF p >= 0 THEN << CH_DOT >> \o DecStr(p) ELSE << >>)
    \o (IF t >= 0 THEN << t >> ELSE << >>)
    \o << CH_CLOSE >>

Strings == { << >>, Str(<<"a">>), Str(<<"a", "b", "c">>),
             Str(<<"O", "M", "E", "G", "A", "L", "U", "L">>) }

NoInput == [v |-> 0, sgn |-> FALSE, fl |-> << >>, w |-> -1, p |-> -1, t |-> -1, str |-> << >>,
            isstr |-> FALSE, rw |-> 0, rp |-> -1]

RInit ==
    /\ r_kind = "none"
    /\ r_in = NoInput
    /\ r_out = << >>

Calls == {1, 2}

NoCall == [ver |-> "none", fmt0 |-> << >>, args |-> << >>, pc |-> "idle", idx |-> 0,
           out |-> << >>, log |-> << >>, mix |-> FALSE]
NoState == [fmt |-> << CH_NUL >>, len |-> 0, beg |-> 0, end |-> 0]

DInit ==
    /\ d_call = [c \in Calls |-> NoCall]
    /\ d_st = [c \in Calls |-> NoState]

NoBuffer == [pc |-> "none", cap |-> 0, len |-> 0, mem |-> << >>, hi |-> -1]

BInit ==
    /\ b_sink = NoBuffer
    /\ b_ref = << >>

NoFile == [pc |-> "none", newline |-> FALSE, buf |-> << >>, ptr |-> 0, written |-> 0,
           stream |-> << >>]

FInit ==
    /\ f_sink = NoFile
    /\ f_ref = << >>

NoCallback == [pc |-> "none", newline |-> FALSE, len |-> 0, calls |-> << >>]

KInit ==
    /\ k_sink = NoCallback
    /\ k_ret = -1

\* zst::Result<T, E>: int state
STATE_NONE == 0
STATE_VAL == 1
STATE_ERR == 2

MaxResults == 3
Objects == 1..MaxResults

\* storage in which no Result has been constructed
NoResult == [live |-> FALSE, state |-> STATE_NONE, val |-> 0, err |-> 0]

ZInit == z_res = [o \in Objects |-> NoResult]

\* wait_queue() : sem(0), pending_notifies = 0, an empty deque
wait_queue == [queue |-> << >>, sem |-> 0, pending_notifies |-> 0]

MaxThreads == 3
QThreads == 1..MaxThreads

\* per thread: where it is inside an operation of the queue, and the tmp of
\* notify_pending; pushed: the elements pushed so far; underflow: a pop
\* took front() of an empty deque
QInit ==
    q_wait = [wq |-> wait_queue,
              pc |-> [t \in QThreads |-> "idle"],
              tmp |-> [t \in QThreads |-> 0],
              pushed |-> 0,
              underflow |-> FALSE]

MaxPoolWorkers == 2
PoolWorkers == 1..MaxPoolWorkers

\* Job(): should_stop = false and an empty func
NoJob == [should_stop |-> FALSE, func |-> 0]

\* no pool constructed yet. main: where the owning thread is; i: its loop
\* index; num: the argument of set_max_workers; after: "resize" while
\* set_max_workers is in progress; resized: the set_max_workers calls that returned; submitted: the jobs passed to run(), late:
\* those passed after set_max_workers returned, ready: the jobs whose
\* future is set; underflow: a pop took front() of an empty deque
TInit ==
    t_pool = [main |-> "none",
              i |-> 0,
              num |-> 0,
              after |-> "none",
              resized |-> 0,
              num_workers |-> 0,
              workers |-> [w \in PoolWorkers |-> [pc |-> "none", job |-> NoJob]],
              jobs |-> wait_queue,
              submitted |-> {},
              late |-> {},
              ready |-> {},
              underflow |-> FALSE]

Init == RInit /\ DInit /\ BInit /\ FInit /\ KInit /\ ZInit /\ QInit /\ TInit

\* zpr::sprint("{...}", x) for an integer x of type short or unsigned short
RenderInt ==
    /\ r_kind = "none"
    /\ \E sgn \in BOOLEAN, fl \in FlagSeqs, w \in Widths, p \in Precs, t \in IntTypes :
         \E v \in (IF sgn THEN SignedValues ELSE UnsignedValues) :
            /\ r_kind' = "int"
            /\ r_in' = [NoInput EXCEPT !.v = v, !.sgn = sgn, !.fl = fl, !.w = w, !.p = p, !.t = t]
            /\ r_out' = __int_formatter_print(v, sgn, parse_fmt_spec(Token(fl, w, p, t)))
    /\ UNCHANGED << d_vars, b_vars, f_vars, k_vars, z_vars, q_vars, t_vars >>

\* zpr::sprint("{...}", s) for a C string s
RenderString ==
    /\ r_kind = "none"
    /\ \E fl \in FlagSeqs, w \in Widths, p \in Precs, t \in StrTypes, s \in Strings :
            /\ r_kind' = "str"
            /\ r_in' = [NoInput EXCEPT !.str = s, !.fl = fl, !.w = w, !.p = p, !.t = t]
            /\ r_out' = print_formatter_cstr(s, parse_fmt_spec(Token(fl, w, p, t)))
    /\ UNCHANGED << d_vars, b_vars, f_vars, k_vars, z_vars, q_vars, t_vars >>

\* the same call through zpr 1.4.0
RenderInt_1_4 ==
    /\ r_kind = "none"
    /\ \E sgn \in BOOLEAN, fl \in FlagSeqs, w \in Widths, p \in Precs, t \in IntTypes_1_4 :
         \E v \in (IF sgn THEN SignedValues ELSE UnsignedValues) :
            /\ r_kind' = "int_1_4"
            /\ r_in' = [NoInput EXCEPT !.v = v, !.sgn = sgn, !.fl = fl, !.w = w, !.p = p, !.t = t]
            /\ r_out' = print_formatter_integral_1_4(v, sgn,
                            parse_fmt_spec_1_4(Token(fl, w, p, t)).args)
    /\ UNCHANGED << d_vars, b_vars, f_vars, k_vars, z_vars, q_vars, t_vars >>

\* zpr::sprint("{...}", s) for a C string s through zpr 1.4.0
RenderString_1_4 ==
    /\ r_kind = "none"
    /\ \E fl \in FlagSeqs, w \in Widths, p \in Precs, t \in StrTypes, s \in Strings :
            /\ r_kind' = "str_1_4"
            /\ r_in' = [NoInput EXCEPT !.str = s, !.fl = fl, !.w = w, !.p = p, !.t = t]
            /\ r_out' = print_string_1_4(s, Len(s), parse_fmt_spec_1_4(Token(fl, w, p, t)).args)
    /\ UNCHANGED << d_vars, b_vars, f_vars, k_vars, z_vars, q_vars, t_vars >>

RuntimeWidths == -MaxWidth..MaxWidth
RuntimeFlags == {<< >>, << CH_MINUS >>, << CH_0 >>}
RuntimeArgs ==
    { [isstr |-> TRUE, str |-> s, v |-> 0, sgn |-> FALSE] : s \in Strings }
    \cup { [isstr |-> FALSE, str |-> << >>, v |-> v, sgn |-> TRUE] : v \in SignedValues }

RuntimeInput(arg, fl, rw, rp) ==
    [NoInput EXCEPT !.isstr = arg.isstr, !.str = arg.str, !.v = arg.v, !.sgn = arg.sgn,
                    !.fl = fl, !.rw = rw, !.rp = rp]

\* zpr::sprint("{fl}", zpr::w(n)(x))
RenderFmtargW ==
    /\ r_kind = "none"
    /\ \E arg \in RuntimeArgs, fl \in RuntimeFlags, n \in RuntimeWidths :
            /\ r_kind' = "fmtarg_w"
            /\ r_in' = RuntimeInput(arg, fl, n, -1)
            /\ r_out' = print_formatter_fmtarg_w([arg |-> arg, width |-> n, prec |-> -1],
                            parse_fmt_spec(Token(fl, -1, -1, -1)))
    /\ UNCHANGED << d_vars, b_vars, f_vars, k_vars, z_vars, q_vars, t_vars >>

\* zpr::sprint("{fl}", zpr::wp(n, p)(x))
RenderFmtargWP ==
    /\ r_kind = "none"
    /\ \E arg \in RuntimeArgs, fl \in RuntimeFlags, n \in RuntimeWidths, p \in 0..MaxPrec :
            /\ r_kind' = "fmtarg_wp"
            /\ r_in' = RuntimeInput(arg, fl, n, p)
            /\ r_out' = print_formatter_fmtarg_wp([arg |-> arg, width |-> n, prec |-> p],
                            parse_fmt_spec(Token(fl, -1, -1, -1)))
    /\ UNCHANGED << d_vars, b_vars, f_vars, k_vars, z_vars, q_vars, t_vars >>

\* zpr 1.4.0: zpr::sprint("{fl*}", n, x)
RenderStarWidth_1_4 ==
    /\ r_kind = "none"
    /\ \E arg \in RuntimeArgs, fl \in RuntimeFlags, n \in RuntimeWidths :
            /\ r_kind' = "star_1_4"
            /\ r_in' = RuntimeInput(arg, fl, n, -1)
            /\ r_out' = print_one_of_1_4(arg, dynamic_width_1_4(
                            parse_fmt_spec_1_4(<< CH_OPEN >> \o fl \o << CH_STAR, CH_CLOSE >>).args, n))
    /\ UNCHANGED << d_vars, b_vars, f_vars, k_vars, z_vars, q_vars, t_vars >>

RNext ==
    \/ RenderInt
    \/ RenderString
    \/ RenderInt_1_4
    \/ RenderString_1_4
    \/ RenderFmtargW
    \/ RenderFmtargWP
    \/ RenderStarWidth_1_4

SpecRender == Init /\ [][RNext]_vars

(***************************************************************************)
(* The reference the renderers are compared with: the d, u, x and s        *)
(* conversions of printf as ISO C 7.21.6.1 defines them                    *)
(***************************************************************************)
RefDigit(d) == IF d < 10 THEN CH_0 + d ELSE CH_a + (d - 10)

RECURSIVE RefDigits(_, _)
RefDigits(n, base) ==
    IF n < base THEN << RefDigit(n) >>
    ELSE RefDigits(n \div base, base) \o << RefDigit(n % base) >>

\* %[fl][w][.p]d, %..u and %..x of a short or unsigned short; fl is empty or
\* one of the flags 0 and -
PrintfInt(v, fl, w, p, t) ==
    LET base == IF t = CH_x THEN 16 ELSE 10
        neg  == base = 10 /\ v < 0
        mag  == IF neg THEN -v ELSE IF v < 0 THEN v + TwoToBits ELSE v
        ds0  == IF mag = 0 /\ p = 0 THEN << >> ELSE RefDigits(mag, base)
        ds   == Rep(CH_0, p - Len(ds0)) \o ds0
        sign == IF neg THEN << CH_MINUS >> ELSE << >>
        pad  == w - (Len(sign) + Len(ds))
    IN  IF fl = << CH_MINUS >> THEN sign \o ds \o Rep(CH_SPACE, pad)
        ELSE IF fl = << CH_0 >> /\ p < 0 THEN sign \o Rep(CH_0, pad) \o ds
        ELSE Rep(CH_SPACE, pad) \o sign \o ds

\* %[-][w][.p]s
PrintfStr(str, fl, w, p) ==
    LET body == IF p >= 0 THEN SubSeq(str, 1, Min(p, Len(str))) ELSE str
        pad  == w - Len(body)
    IN  IF fl = << CH_MINUS >> THEN body \o Rep(CH_SPACE, pad)
        ELSE Rep(CH_SPACE, pad) \o body

\* C1: for integers rendered in decimal or hexadecimal and for C strings, with
\* the specifier shapes {}, {W}, {.P}, {W.P}, {0W.P}, {-W.P}, the rendered text
\* is byte-for-byte what printf produces for the translated specifier (the 0
\* flag with %s, which ISO C leaves undefined, is not compared).
C1_PrintfEquivalence ==
    /\ (r_kind = "int" /\ r_in.t \in {-1, CH_x}
            /\ r_in.fl \in {<< >>, << CH_0 >>, << CH_MINUS >>})
        => string_appender(r_out) = PrintfInt(r_in.v, r_in.fl, r_in.w, r_in.p, r_in.t)
    /\ (r_kind = "str" /\ r_in.fl \in {<< >>, << CH_MINUS >>})
        => string_appender(r_out) = PrintfStr(r_in.str, r_in.fl, r_in.w, r_in.p)

\* the text the same value renders to with the same flags, precision and type
\* but no width
NaturalText ==
    IF r_kind = "int"
    THEN string_appender(__int_formatter_print(r_in.v, r_in.sgn,
            parse_fmt_spec(Token(r_in.fl, -1, r_in.p, r_in.t))))
    ELSE string_appender(print_formatter_cstr(r_in.str,
            parse_fmt_spec(Token(r_in.fl, -1, r_in.p, r_in.t))))

\* C5: a string or an integer rendered with a width w >= 0 and any flags and
\* precision emits max(w, natural length) characters, the natural length being
\* what the same value, flags and precision emit without a width; with the
\* left-justify flag the padding comes after the token.
C5_FieldLength ==
    (r_kind \in {"int", "str"} /\ r_in.w >= 0) =>
        LET out == string_appender(r_out)
        IN  /\ Len(out) = Max(r_in.w, Len(NaturalText))
            /\ (\E i \in 1..Len(r_in.fl) : r_in.fl[i] = CH_MINUS) =>
                    out = NaturalText \o Rep(CH_SPACE, Len(out) - Len(NaturalText))

IsHexDigit(c) == IsDigit(c) \/ (CH_a <= c /\ c <= Ord("f")) \/ (CH_A <= c /\ c <= Ord("F"))

\* C10: for every integer value, 0 included, and every base in {2, 10, 16}
\* the integer renderer emits at least one digit, and 0 renders as "0".
C10_AtLeastOneDigit ==
    (r_kind \in {"int", "int_1_4"} /\ r_in.t \in {-1, CH_x, CH_b}
            /\ r_in.fl = << >> /\ r_in.w = -1 /\ r_in.p = -1) =>
        LET out == string_appender(r_out)
        IN  /\ \E i \in 1..Len(out) : IsHexDigit(out[i])
            /\ r_in.v = 0 => out = << CH_0 >>

HasFlag(c) == \E i \in 1..Len(r_in.fl) : r_in.fl[i] = c

\* the integer rendering of the call's version for the call's value with the
\* flags fl, width w, precision p and type t
IntText(fl, w, p, t) ==
    IF r_kind = "int"
    THEN string_appender(__int_formatter_print(r_in.v, r_in.sgn,
            parse_fmt_spec(Token(fl, w, p, t))))
    ELSE string_appender(print_formatter_integral_1_4(r_in.v, r_in.sgn,
            parse_fmt_spec_1_4(Token(fl, w, p, t)).args))

UpperAF(c) == IF CH_a <= c /\ c <= Ord("f") THEN c - 32 ELSE c

\* C11: for every unsigned value the X type renders the digit string of x
\* with the letters a-f replaced by A-F and the digits 0-9 unchanged; with the
\* uppercase-prefix configuration off the radix prefix stays "0x", so 255
\* renders as "0xFF" under {#X}.
C11_UppercaseHex ==
    (r_kind \in {"int", "int_1_4"} /\ ~r_in.sgn /\ r_in.t = Ord("X")) =>
        LET lower == IntText(r_in.fl, r_in.w, r_in.p, CH_x)
        IN  string_appender(r_out) = [i \in 1..Len(lower) |-> UpperAF(lower[i])]

\* C12: the string renderer emits exactly the first min(precision, length)
\* bytes of the string (all of it without a precision) and pads to the width
\* with spaces only, also when the zero-pad flag is set: on the left by
\* default, on the right for a negative width.
C12_StringSpacePadding ==
    (r_kind \in {"str", "str_1_4"}) =>
        LET out  == string_appender(r_out)
            body == IF r_in.p >= 0 THEN SubSeq(r_in.str, 1, Min(r_in.p, Len(r_in.str)))
                    ELSE r_in.str
            pad  == Rep(CH_SPACE, r_in.w - Len(body))
        IN  out = IF HasFlag(CH_MINUS) THEN body \o pad ELSE pad \o body

\* C17: the sign prefix of an integer printed in decimal is '-' for every
\* negative value whatever the '+' and space flags are, and is '+' (or a
\* space) only when that flag is set and the value is not negative.
C17_SignPrefix ==
    (r_kind \in {"int", "int_1_4"} /\ r_in.sgn /\ r_in.t = -1 /\ r_in.w = -1) =>
        LET out == string_appender(r_out)
        IN  Len(out) > 0 =>
              /\ r_in.v < 0 => out[1] = CH_MINUS
              /\ out[1] = CH_PLUS => (HasFlag(CH_PLUS) /\ r_in.v >= 0)
              /\ out[1] = CH_SPACE => (HasFlag(CH_SPACE) /\ r_in.v >= 0)

\* the sign and radix prefix of a text rendered without a width
PrefixLength(text) ==
    (IF Len(text) > 0 /\ text[1] \in {CH_PLUS, CH_MINUS, CH_SPACE} THEN 1 ELSE 0)
    + (IF HasFlag(CH_HASH) /\ r_in.t \in {CH_x, Ord("X"), CH_b} THEN 2 ELSE 0)

\* C18: an integer rendered with precision p emits max(p, natural digit count)
\* digit characters after the sign and radix prefix, also when the alternate
\* flag adds a "0x"/"0b" prefix: the prefix does not count towards the minimum.
C18_PrecisionDigitCount ==
    (r_kind = "int" /\ r_in.t \in {-1, CH_x, Ord("X"), CH_b}
            /\ r_in.w = -1 /\ r_in.p >= 0) =>
        LET out     == string_appender(r_out)
            natural == IntText(r_in.fl, -1, -1, r_in.t)
        IN  Len(out) - PrefixLength(out)
                = Max(r_in.p, Len(natural) - PrefixLength(natural))

\* the argument of a call with a runtime width
RuntimeArg == [isstr |-> r_in.isstr, str |-> r_in.str, v |-> r_in.v, sgn |-> r_in.sgn]

\* the FormatSpec the renderer of such a call is handed
RuntimeHanded ==
    IF r_kind = "fmtarg_w"
    THEN set_width(parse_fmt_spec(Token(r_in.fl, -1, -1, -1)), r_in.rw)
    ELSE IF r_kind = "fmtarg_wp"
    THEN set_precision(set_width(parse_fmt_spec(Token(r_in.fl, -1, -1, -1)), r_in.rw), r_in.rp)
    ELSE dynamic_width_1_4(
            parse_fmt_spec_1_4(<< CH_OPEN >> \o r_in.fl \o << CH_STAR, CH_CLOSE >>).args, r_in.rw)

\* what the same call renders without any width
RuntimeNatural ==
    IF r_kind = "star_1_4"
    THEN string_appender(print_one_of_1_4(RuntimeArg,
            parse_fmt_spec_1_4(Token(r_in.fl, -1, r_in.rp, -1)).args))
    ELSE string_appender(print_one_of(RuntimeArg,
            parse_fmt_spec(Token(r_in.fl, -1, r_in.rp, -1))))

\* C19: in every FormatSpec handed to a renderer whose width came from a
\* runtime argument (w(n), wp(n, p) or a '*' width) the width is stored as a
\* non-negative magnitude and left-justification is carried by the
\* negative-width flag alone; a runtime width of -n renders the value
\* left-justified in a field of n characters, the padding on the right.
C19_RuntimeWidthMagnitude ==
    (r_kind \in {"fmtarg_w", "fmtarg_wp", "star_1_4"}) =>
        LET a   == RuntimeHanded
            out == string_appender(r_out)
        IN  /\ a.width >= 0
            /\ r_in.rw < 0 => negative_width(a)
            /\ r_in.rw < 0 =>
                    out = RuntimeNatural \o Rep(CH_SPACE, (-r_in.rw) - Len(RuntimeNatural))

(***************************************************************************)
(* Parsing calls: parse_fmt_spec on the tokens of the grammar              *)
(* {[flags][width][.precision][type]}                                      *)
(***************************************************************************)
MaxFlagRun == 2

\* the runs of at most n flag characters, in any order, with repetition
RECURSIVE FlagRuns(_)
FlagRuns(n) ==
    IF n = 0 THEN {<< >>}
    ELSE LET prev == FlagRuns(n - 1)
         IN  prev \cup {f \o << c >> : f \in prev, c \in {CH_0, CH_HASH, CH_MINUS, CH_PLUS, CH_SPACE}}

ParseWidths == {-1} \cup (1..MaxWidth) \cup {10, 18, 100}
ParsePrecs  == {-1} \cup (0..MaxPrec) \cup {10, 25}
ParseTypes  == {-1, Ord("d"), CH_x, Ord("X"), Ord("s")}

\* the token; pneg: the precision is written with a leading '-'
GrammarToken(fl, w, pneg, p, t) ==
    << CH_OPEN >> \o fl
    \o (IF w >= 0 THEN DecStr(w) ELSE << >>)
    \o (IF p >= 0 THEN << CH_DOT >> \o (IF pneg THEN << CH_MINUS >> ELSE << >>) \o DecStr(p)
        ELSE << >>)
    \o (IF t >= 0 THEN << t >> ELSE << >>)
    \o << CH_CLOSE >>

ParseInputs ==
    { [fl |-> fl, w |-> w, pneg |-> pneg, p |-> p, t |-> t] :
        fl \in FlagRuns(MaxFlagRun), w \in ParseWidths, pneg \in BOOLEAN,
        p \in ParsePrecs, t \in ParseTypes }

\* detail::parse_fmt_spec(token) of zpr 2.5.4
ParseToken ==
    /\ r_kind = "none"
    /\ \E in \in ParseInputs :
            /\ r_kind' = "parse"
            /\ r_in' = in
            /\ r_out' = parse_fmt_spec(GrammarToken(in.fl, in.w, in.pneg, in.p, in.t))
    /\ UNCHANGED << d_vars, b_vars, f_vars, k_vars, z_vars, q_vars, t_vars >>

\* detail::parse_fmt_spec(token) of zpr 1.4.0
ParseToken_1_4 ==
    /\ r_kind = "none"
    /\ \E in \in ParseInputs :
            /\ r_kind' = "parse_1_4"
            /\ r_in' = in
            /\ r_out' = parse_fmt_spec_1_4(GrammarToken(in.fl, in.w, in.pneg, in.p, in.t)).args
    /\ UNCHANGED << d_vars, b_vars, f_vars, k_vars, z_vars, q_vars, t_vars >>

PNext == ParseToken \/ ParseToken_1_4

SpecParse == Init /\ [][PNext]_vars

\* the bit of a flag character in the reference grammar
GrammarFlag(c) ==
    IF c = CH_0 THEN FMT_FLAG_ZERO_PAD
    ELSE IF c = CH_HASH THEN FMT_FLAG_ALTERNATE
    ELSE IF c = CH_MINUS THEN FMT_FLAG_WIDTH_NEGATIVE
    ELSE IF c = CH_PLUS THEN FMT_FLAG_PREPEND_PLUS
    ELSE FMT_FLAG_PREPEND_SPACE

\* C20: for every token of the grammar {[flags][width][.precision][type]},
\* parse_fmt_spec returns the flag bits of the leading run of 0 # - + space
\* characters (any order, any repetition), the width of the maximal digit run
\* that follows, the precision of the maximal digit run after '.', no
\* precision when it is written with a leading '-', the next character as the
\* type, and for {} no flags, no width, no precision and an unset type.
C20_ParseGrammar ==
    (r_kind \in {"parse", "parse_1_4"}) =>
        LET hasw == r_in.w >= 0
            hasp == r_in.p >= 0 /\ ~r_in.pneg
        IN  /\ r_out.flags = {GrammarFlag(r_in.fl[i]) : i \in 1..Len(r_in.fl)}
                    \cup (IF hasw THEN {FMT_FLAG_HAVE_WIDTH} ELSE {})
                    \cup (IF hasp THEN {FMT_FLAG_HAVE_PRECISION} ELSE {})
            /\ have_width(r_out) = hasw
            /\ hasw => r_out.width = r_in.w
            /\ have_precision(r_out) = hasp
            /\ hasp => r_out.precision = r_in.p
            /\ r_out.specifier = r_in.t
            /\ (r_in.fl = << >> /\ ~hasw /\ r_in.p < 0 /\ r_in.t < 0) => r_out = format_args

\* the token {--18.-25x} has been parsed: a repeated flag, a width of two
\* digits, a negative precision and a type
C20_Witness ==
    /\ r_kind = "parse"
    /\ r_in = [fl |-> << CH_MINUS, CH_MINUS >>, w |-> 18, pneg |-> TRUE, p |-> 25, t |-> CH_x]
    /\ r_out.width = 18
    /\ r_out.specifier = CH_x
    /\ ~have_precision(r_out)

(***************************************************************************)
(* Formatting calls: cprint(cb, fmt, args...) of either version            *)
(***************************************************************************)
MaxPieces == 3
MaxArgs == 4

\* the concatenations of at most n of the pieces P
RECURSIVE Concats(_, _)
Concats(P, n) ==
    IF n = 0 THEN {<< >>}
    ELSE LET prev == Concats(P, n - 1) IN prev \cup {f \o q : f \in prev, q \in P}

Pieces == { Str(<<"z">>), Str(<<"{", "{">>), Str(<<"}", "}">>), Str(<<"{", "}">>),
            Str(<<"{", "*", "}">>), Str(<<"{", ".", "*", "}">>),
            Str(<<"{", "*", ".", "*", "}">>), Str(<<"{">>), Str(<<"}">>) }
Formats == Concats(Pieces, MaxPieces)

\* the argument lists of the two calls are distinct: 5, 6, 7.. and 15, 16, 17..
ArgsOf(c) == [i \in 1..MaxArgs |-> 10 * (c - 1) + 4 + i]

\* a driver whose scan state is one static object
d_slot_shared(c) == 1

\* the local variables of call c: __print_state_t st (2.5.4); beg, end (1.4.0)
d_slot(c) == c

Cur(c) ==
    LET st == d_st[d_slot(c)]
    IN  [ver |-> d_call[c].ver, fmt0 |-> d_call[c].fmt0, args |-> d_call[c].args,
         pc |-> d_call[c].pc, idx |-> d_call[c].idx, out |-> d_call[c].out,
         log |-> d_call[c].log,
         fmt |-> st.fmt, len |-> st.len, beg |-> st.beg, end |-> st.end]

Store(c, s) ==
    /\ d_call' = [d_call EXCEPT ![c] =
            [ver |-> s.ver, fmt0 |-> s.fmt0, args |-> s.args, pc |-> s.pc,
             idx |-> s.idx, out |-> s.out, log |-> s.log,
             mix |-> d_call[c].mix \/ (\E o \in Calls \ {c} : d_call[o].pc = "run")]]
    /\ d_st' = [d_st EXCEPT ![d_slot(c)] =
            [fmt |-> s.fmt, len |-> s.len, beg |-> s.beg, end |-> s.end]]

\* a call begins: detail::print sets up its scan state
DCall(c, F, maxn) ==
    /\ d_call[c].pc = "idle"
    /\ \E ver \in {"2.5.4", "1.4.0"}, fmt \in F, n \in 0..maxn :
            Store(c, Start(ver, fmt, SubSeq(ArgsOf(c), 1, n)))
    /\ UNCHANGED << r_vars, b_vars, f_vars, k_vars, z_vars, q_vars, t_vars >>

\* 2.5.4: one iteration of skip_fmts for the next argument of the pack
DSkipFmts(c) ==
    /\ d_call[c].pc = "run"
    /\ d_call[c].ver = "2.5.4"
    /\ d_call[c].idx < Len(d_call[c].args)
    /\ Store(c, skip_fmts(Cur(c)))
    /\ UNCHANGED << r_vars, b_vars, f_vars, k_vars, z_vars, q_vars, t_vars >>

\* 2.5.4: skip_fmts has run for every argument; the final flush
DPrintFlush(c) ==
    /\ d_call[c].pc = "run"
    /\ d_call[c].ver = "2.5.4"
    /\ d_call[c].idx >= Len(d_call[c].args)
    /\ Store(c, print_flush(Cur(c)))
    /\ UNCHANGED << r_vars, b_vars, f_vars, k_vars, z_vars, q_vars, t_vars >>

\* 1.4.0: one iteration of the loop of detail::print, or its final flush
DPrint_1_4(c) ==
    /\ d_call[c].pc = "run"
    /\ d_call[c].ver = "1.4.0"
    /\ Store(c, print_1_4(Cur(c)))
    /\ UNCHANGED << r_vars, b_vars, f_vars, k_vars, z_vars, q_vars, t_vars >>

DNext ==
    \/ DCall(1, Formats, MaxArgs)
    \/ DSkipFmts(1)
    \/ DPrintFlush(1)
    \/ DPrint_1_4(1)

SpecDriver == Init /\ [][DNext]_vars

\* the bytes cprint reports: appender.size()
cprint_return(c) == Len(d_call[c].out)

(***************************************************************************)
(* What a format string says, read off the grammar: text, {{, }}, a        *)
(* specifier {...}, or a brace that is none of these ("bad")               *)
(***************************************************************************)
RECURSIVE FirstClose(_, _)
FirstClose(f, i) ==
    IF i > Len(f) THEN 0 ELSE IF f[i] = CH_CLOSE THEN i ELSE FirstClose(f, i + 1)

RECURSIVE RefTokens(_, _)
RefTokens(f, i) ==
    IF i > Len(f) THEN << >>
    ELSE IF f[i] = CH_OPEN
    THEN IF i < Len(f) /\ f[i + 1] = CH_OPEN THEN << "open" >> \o RefTokens(f, i + 2)
         ELSE IF FirstClose(f, i) = 0 THEN << "bad" >>
         ELSE << "spec" >> \o RefTokens(f, FirstClose(f, i) + 1)
    ELSE IF f[i] = CH_CLOSE
    THEN IF i < Len(f) /\ f[i + 1] = CH_CLOSE THEN << "close" >> \o RefTokens(f, i + 2)
         ELSE << "bad" >> \o RefTokens(f, i + 1)
    ELSE << "text" >> \o RefTokens(f, i + 1)

NumTok(f, kind) == Cardinality({i \in 1..Len(RefTokens(f, 1)) : RefTokens(f, 1)[i] = kind})
WellFormed(f) == NumTok(f, "bad") = 0
CountChar(out, ch) == Cardinality({i \in 1..Len(out) : out[i] = ch})

\* C2: for every format string and every argument count, each {{ outside a
\* specifier produces exactly one { in the output and each }} exactly one },
\* consuming no argument; "{{}}" with no arguments yields "{}" and "{{{}}}"
\* with the argument 5 yields "{5}".
C2_EscapedBraces ==
    \A c \in Calls :
        (d_call[c].pc = "done" /\ WellFormed(d_call[c].fmt0)) =>
            /\ CountChar(d_call[c].out, CH_OPEN) = NumTok(d_call[c].fmt0, "open")
            /\ CountChar(d_call[c].out, CH_CLOSE) = NumTok(d_call[c].fmt0, "close")
            /\ Len(d_call[c].log) <= NumTok(d_call[c].fmt0, "spec")
            /\ (d_call[c].fmt0 = Str(<<"{", "{", "}", "}">>) /\ d_call[c].args = << >>)
                    => d_call[c].out = Str(<<"{", "}">>)
            /\ (d_call[c].fmt0 = Str(<<"{", "{", "{", "}", "}", "}">>) /\ d_call[c].args = << 5 >>)
                    => d_call[c].out = Str(<<"{", "5", "}">>)

\* the arguments an entry of the log names, in the order it used them
Used(e) == SelectSeq(<< e.w, e.p, e.v >>, LAMBDA x : x >= 0)

C4_MissingPlaceholder ==
    \A c \in Calls :
        LET f == d_call[c].fmt0
            missing == NumTok(f, "spec") - Len(d_call[c].args)
        IN  (d_call[c].pc = "done" /\ WellFormed(f) /\ CountChar(f, CH_STAR) = 0
                /\ missing > 0) =>
                /\ CountChar(d_call[c].out, Ord("<")) = missing
                /\ CountChar(d_call[c].out, CH_OPEN) = NumTok(f, "open")
                /\ CountChar(d_call[c].out, Ord("z")) = NumTok(f, "text")

(***************************************************************************)
(* Two calls at once, each with its own callback and its own arguments     *)
(***************************************************************************)
ConcMaxPieces == 2
ConcMaxArgs == 1
ConcFormats == Concats({ Str(<<"z">>), Str(<<"{", "}">>) }, ConcMaxPieces)

CNext ==
    \E c \in Calls :
        \/ DCall(c, ConcFormats, ConcMaxArgs)
        \/ DSkipFmts(c)
        \/ DPrintFlush(c)
        \/ DPrint_1_4(c)

SpecConc == Init /\ [][CNext]_vars

\* the call run from start to end with nothing else running
RECURSIVE RunAlone(_)
RunAlone(s) ==
    IF s.pc = "done" THEN s
    ELSE IF s.ver = "1.4.0" THEN RunAlone(print_1_4(s))
    ELSE IF s.idx < Len(s.args) THEN RunAlone(skip_fmts(s))
    ELSE RunAlone(print_flush(s))

\* C9: under every interleaving of two calls with distinct sinks and distinct
\* argument lists, each call's output and return value equal what the call
\* produces when run alone.
C9_CallsIndependent ==
    \A c \in Calls :
        d_call[c].pc = "done" =>
            LET alone == RunAlone(Start(d_call[c].ver, d_call[c].fmt0, d_call[c].args))
            IN  /\ d_call[c].out = alone.out
                /\ cprint_return(c) = Len(alone.out)

C9_Witness ==
    \A c \in Calls :
        /\ d_call[c].pc = "done"
        /\ d_call[c].mix
        /\ Len(d_call[c].log) = 1
        /\ d_call[c].ver = "2.5.4"

(***************************************************************************)
(* The fixed-capacity sink under any sequence of writes                    *)
(***************************************************************************)
MaxCap == 4
MaxRun == 4
MaxRange == 3
MaxWrites == 3
GuardCells == 2

SinkText == Str(<<"a", "b", "c", "d", "e", "f", "g", "h">>)
Ranges == { SubSeq(SinkText, 1, n) : n \in 0..MaxRange }

\* buffer_appender(buf, cap) over a buffer that other memory follows
BufConstruct ==
    /\ b_sink.pc = "none"
    /\ \E cap \in 0..MaxCap :
            b_sink' = [pc |-> "open", cap |-> cap, len |-> 0,
                       mem |-> [i \in 1..(cap + GuardCells) |-> UNWRITTEN], hi |-> -1]
    /\ b_ref' = << >>
    /\ UNCHANGED << r_vars, d_vars, f_vars, k_vars, z_vars, q_vars, t_vars >>

BufChar ==
    /\ b_sink.pc = "open"
    /\ Len(b_ref) < MaxWrites
    /\ b_sink' = buffer_appender_char(b_sink, Ord("x"))
    /\ b_ref' = Append(b_ref, << Ord("x") >>)
    /\ UNCHANGED << r_vars, d_vars, f_vars, k_vars, z_vars, q_vars, t_vars >>

BufRepeat ==
    /\ b_sink.pc = "open"
    /\ Len(b_ref) < MaxWrites
    /\ \E n \in 0..MaxRun :
            /\ b_sink' = buffer_appender_repeat(b_sink, Ord("y"), n, 0)
            /\ b_ref' = Append(b_ref, Rep(Ord("y"), n))
    /\ UNCHANGED << r_vars, d_vars, f_vars, k_vars, z_vars, q_vars, t_vars >>

BufRange ==
    /\ b_sink.pc = "open"
    /\ Len(b_ref) < MaxWrites
    /\ \E sv \in Ranges :
            /\ b_sink' = buffer_appender_range(b_sink, sv)
            /\ b_ref' = Append(b_ref, sv)
    /\ UNCHANGED << r_vars, d_vars, f_vars, k_vars, z_vars, q_vars, t_vars >>

BNext == BufConstruct \/ BufChar \/ BufRepeat \/ BufRange

SpecSink == Init /\ [][BNext]_vars

RECURSIVE Flatten(_)
Flatten(ws) == IF ws = << >> THEN << >> ELSE Head(ws) \o Flatten(Tail(ws))

\* what sprint returns: appender.size()
sprint_return == b_sink.len

\* C6: after any sequence of writes totalling T bytes into a sink of capacity
\* C, the buffer holds exactly the first min(C, T) bytes of the untruncated
\* output and sprint returns min(C, T).
C6_TruncatedPrefix ==
    b_sink.pc = "open" =>
        LET total == Flatten(b_ref)
        IN  /\ sprint_return = Min(b_sink.cap, Len(total))
            /\ SubSeq(b_sink.mem, 1, b_sink.len) = SubSeq(total, 1, Min(b_sink.cap, Len(total)))

\* C7: the stored length never exceeds the capacity, no write touches a byte
\* at index >= capacity, and the sink appends no terminating NUL: beyond the
\* stored length the memory is as it was.
C7_WithinCapacity ==
    b_sink.pc = "open" =>
        /\ b_sink.len <= b_sink.cap
        /\ b_sink.hi < b_sink.cap
        /\ \A i \in (b_sink.len + 1)..Len(b_sink.mem) : b_sink.mem[i] = UNWRITTEN

C7_Witness ==
    /\ b_sink.pc = "open"
    /\ b_sink.cap > 0
    /\ b_sink.len = b_sink.cap
    /\ Len(Flatten(b_ref)) > b_sink.cap + 1
    /\ Len(b_ref) = MaxWrites
    /\ b_ref[Len(b_ref)] = << Ord("x") >>

(***************************************************************************)
(* The buffered-stream sink under any sequence of writes                   *)
(***************************************************************************)
\* the staging size, detail::STDIO_BUFFER_SIZE, scaled down
STDIO_BUFFER_SIZE == 3

\* file_appender(fd, written): buf[0] = '\n'
FileConstruct ==
    /\ f_sink.pc = "none"
    /\ \E nl \in BOOLEAN :
            f_sink' = [pc |-> "open", newline |-> nl,
                       buf |-> [i \in 1..(STDIO_BUFFER_SIZE + 1) |->
                                    IF i = 1 THEN CH_NL ELSE UNWRITTEN],
                       ptr |-> 0, written |-> 0, stream |-> << >>]
    /\ f_ref' = << >>
    /\ UNCHANGED << r_vars, d_vars, b_vars, k_vars, z_vars, q_vars, t_vars >>

FileChar ==
    /\ f_sink.pc = "open"
    /\ Len(f_ref) < MaxWrites
    /\ f_sink' = file_appender_char(f_sink, Ord("x"), STDIO_BUFFER_SIZE, f_sink.newline)
    /\ f_ref' = Append(f_ref, << Ord("x") >>)
    /\ UNCHANGED << r_vars, d_vars, b_vars, k_vars, z_vars, q_vars, t_vars >>

FileRepeat ==
    /\ f_sink.pc = "open"
    /\ Len(f_ref) < MaxWrites
    /\ \E n \in 0..MaxRun :
            /\ f_sink' = file_appender_repeat(f_sink, Ord("y"), n, STDIO_BUFFER_SIZE,
                                              f_sink.newline)
            /\ f_ref' = Append(f_ref, Rep(Ord("y"), n))
    /\ UNCHANGED << r_vars, d_vars, b_vars, k_vars, z_vars, q_vars, t_vars >>

FileRange ==
    /\ f_sink.pc = "open"
    /\ Len(f_ref) < MaxWrites
    /\ \E sv \in Ranges :
            /\ f_sink' = file_appender_range(f_sink, sv, STDIO_BUFFER_SIZE, f_sink.newline)
            /\ f_ref' = Append(f_ref, sv)
    /\ UNCHANGED << r_vars, d_vars, b_vars, k_vars, z_vars, q_vars, t_vars >>

\* ~file_appender(): flush(true)
FileDestroy ==
    /\ f_sink.pc = "open"
    /\ f_sink' = [file_flush_last(f_sink, STDIO_BUFFER_SIZE, f_sink.newline)
                    EXCEPT !.pc = "closed"]
    /\ UNCHANGED << f_ref, r_vars, d_vars, b_vars, k_vars, z_vars, q_vars, t_vars >>

FNext == FileConstruct \/ FileChar \/ FileRepeat \/ FileRange \/ FileDestroy

SpecFile == Init /\ [][FNext]_vars

\* C8: for the newline-appending sink and every content length, zero and the
\* exact multiples of the staging size included, the stream receives exactly
\* the content followed by one '\n', and that newline is written in the same
\* write call as the last chunk of content.
C8_NewlineWithLastChunk ==
    (f_sink.pc = "closed" /\ f_sink.newline) =>
        LET last == f_sink.stream[Len(f_sink.stream)]
        IN  /\ Flatten(f_sink.stream) = Flatten(f_ref) \o << CH_NL >>
            /\ last[Len(last)] = CH_NL
            /\ Flatten(f_ref) # << >> => Len(last) >= 2

(***************************************************************************)
(* Iterables and pairs of short                                            *)
(***************************************************************************)
\* 2.5.4: the loop of print_formatter<iterable>::print from the element at i
RECURSIVE iterable_loop(_, _, _)
iterable_loop(x, i, args) ==
    __int_formatter_print(x[i], TRUE, args)
    \o (IF i < Len(x)
        THEN (IF ~alternate(args) THEN << CbRange(<< Ord(","), CH_SPACE >>) >> ELSE << >>)
             \o iterable_loop(x, i + 1, args)
        ELSE << >>)

\* 2.5.4: print_formatter<iterable>::print
print_formatter_iterable(x, args) ==
    IF x = << >>
    THEN IF ~alternate(args) THEN << CbRange(<< Ord("["), CH_SPACE, Ord("]") >>) >> ELSE << >>
    ELSE (IF ~alternate(args) THEN << CbRange(<< Ord("[") >>) >> ELSE << >>)
         \o iterable_loop(x, 1, args)
         \o (IF ~alternate(args) THEN << CbRange(<< Ord("]") >>) >> ELSE << >>)

\* 2.5.4: print_formatter<std::pair<A, B>>::print
print_formatter_pair(x, args) ==
    << CbRange(<< CH_OPEN, CH_SPACE >>) >>
    \o __int_formatter_print(x[1], TRUE, args)
    \o << CbRange(<< Ord(","), CH_SPACE >>) >>
    \o __int_formatter_print(x[2], TRUE, args)
    \o << CbRange(<< CH_SPACE, CH_CLOSE >>) >>

\* 1.4.0: detail::print(cb, fmt, args) run to its end: the bytes it wrote
RECURSIVE print_loop_1_4(_)
print_loop_1_4(s) == IF s.pc = "done" THEN s.out ELSE print_loop_1_4(print_1_4(s))

\* 1.4.0: detail::print(cb, "{}", forward_as_tuple(value))
print_default_1_4(value) ==
    CbRange(print_loop_1_4(Start("1.4.0", << CH_OPEN, CH_CLOSE >>, << value >>)))

\* 1.4.0: the loop of print_formatter<iterable>::print from the element at i
RECURSIVE iterable_loop_1_4(_, _)
iterable_loop_1_4(x, i) ==
    << print_default_1_4(x[i]) >>
    \o (IF i < Len(x)
        THEN << CbRange(<< Ord(","), CH_SPACE >>) >> \o iterable_loop_1_4(x, i + 1)
        ELSE << >>)

\* 1.4.0: print_formatter<iterable>::print
print_formatter_iterable_1_4(x, args) ==
    IF x = << >>
    THEN << CbRange(<< Ord("["), CH_SPACE, Ord("]") >>) >>
    ELSE << CbRange(<< Ord("[") >>) >> \o iterable_loop_1_4(x, 1) \o << CbRange(<< Ord("]") >>) >>

\* 1.4.0: print_formatter<std::pair<A, B>>::print
print_formatter_pair_1_4(x, args) ==
    << CbRange(<< CH_OPEN, CH_SPACE >>), print_default_1_4(x[1]),
       CbRange(<< Ord(","), CH_SPACE >>), print_default_1_4(x[2]),
       CbRange(<< CH_SPACE, CH_CLOSE >>) >>

MaxElems == 2

ElemValues == {-7, 0, 5, 255}
Iterables == UNION { [1..n -> ElemValues] : n \in 0..MaxElems }
Pairs == [1..2 -> ElemValues]
AggFlags == {<< >>, << CH_HASH >>, << CH_0 >>, << CH_PLUS >>}
AggWidths == {-1, 4}
AggPrecs == {-1, 3}
AggTypes == {-1, CH_x}

AggInput(x, fl, w, p, t) == [x |-> x, fl |-> fl, w |-> w, p |-> p, t |-> t]

\* zpr::sprint("{...}", v) for a std::vector<short> v
RenderIterable ==
    /\ r_kind = "none"
    /\ \E x \in Iterables, fl \in AggFlags, w \in AggWidths, p \in AggPrecs, t \in AggTypes :
            /\ r_kind' = "iterable"
            /\ r_in' = AggInput(x, fl, w, p, t)
            /\ r_out' = print_formatter_iterable(x, parse_fmt_spec(Token(fl, w, p, t)))
    /\ UNCHANGED << d_vars, b_vars, f_vars, k_vars, z_vars, q_vars, t_vars >>

RenderIterable_1_4 ==
    /\ r_kind = "none"
    /\ \E x \in Iterables, fl \in AggFlags, w \in AggWidths, p \in AggPrecs, t \in AggTypes :
            /\ r_kind' = "iterable_1_4"
            /\ r_in' = AggInput(x, fl, w, p, t)
            /\ r_out' = print_formatter_iterable_1_4(x, parse_fmt_spec_1_4(Token(fl, w, p, t)).args)
    /\ UNCHANGED << d_vars, b_vars, f_vars, k_vars, z_vars, q_vars, t_vars >>

\* zpr::sprint("{...}", pr) for a std::pair<short, short> pr
RenderPair ==
    /\ r_kind = "none"
    /\ \E x \in Pairs, fl \in AggFlags, w \in AggWidths, p \in AggPrecs, t \in AggTypes :
            /\ r_kind' = "pair"
            /\ r_in' = AggInput(x, fl, w, p, t)
            /\ r_out' = print_formatter_pair(x, parse_fmt_spec(Token(fl, w, p, t)))
    /\ UNCHANGED << d_vars, b_vars, f_vars, k_vars, z_vars, q_vars, t_vars >>

RenderPair_1_4 ==
    /\ r_kind = "none"
    /\ \E x \in Pairs, fl \in AggFlags, w \in AggWidths, p \in AggPrecs, t \in AggTypes :
            /\ r_kind' = "pair_1_4"
            /\ r_in' = AggInput(x, fl, w, p, t)
            /\ r_out' = print_formatter_pair_1_4(x, parse_fmt_spec_1_4(Token(fl, w, p, t)).args)
    /\ UNCHANGED << d_vars, b_vars, f_vars, k_vars, z_vars, q_vars, t_vars >>

ANext == RenderIterable \/ RenderIterable_1_4 \/ RenderPair \/ RenderPair_1_4

SpecAggregate == Init /\ [][ANext]_vars

\* what the integer formatter of the call's version renders for e under the
\* FormatSpec of the token {[fl][w][.p][t]}
ElemText(e, fl, w, p, t) ==
    IF r_kind \in {"iterable", "pair"}
    THEN string_appender(__int_formatter_print(e, TRUE, parse_fmt_spec(Token(fl, w, p, t))))
    ELSE string_appender(print_formatter_integral_1_4(e, TRUE,
            parse_fmt_spec_1_4(Token(fl, w, p, t)).args))

RECURSIVE JoinElems(_, _, _)
JoinElems(x, i, sep) ==
    IF i > Len(x) THEN << >>
    ELSE ElemText(x[i], r_in.fl, r_in.w, r_in.p, r_in.t)
         \o (IF i < Len(x) THEN sep ELSE << >>)
         \o JoinElems(x, i + 1, sep)

\* C13: a non-empty iterable of n elements renders as "[", the n element
\* renderings separated by ", ", and "]", each element rendered with the
\* FormatSpec of the outer specifier; an empty one renders as "[ ]"; with the
\* alternate flag only the concatenated element renderings are emitted, and
\* nothing for an empty iterable.
C13_IterableRendering ==
    (r_kind \in {"iterable", "iterable_1_4"}) =>
        string_appender(r_out) =
            IF \E i \in 1..Len(r_in.fl) : r_in.fl[i] = CH_HASH
            THEN JoinElems(r_in.x, 1, << >>)
            ELSE IF r_in.x = << >> THEN << Ord("["), CH_SPACE, Ord("]") >>
            ELSE << Ord("[") >> \o JoinElems(r_in.x, 1, << Ord(","), CH_SPACE >>) \o << Ord("]") >>

\* C14: a pair renders as "{ " first ", " second " }" with both elements
\* rendered under the default (unset) FormatSpec: the flags, width, precision
\* and type of the outer specifier have no effect on the elements.
C14_PairDefaultSpec ==
    (r_kind \in {"pair", "pair_1_4"}) =>
        string_appender(r_out) =
            << CH_OPEN, CH_SPACE >> \o ElemText(r_in.x[1], << >>, -1, -1, -1)
            \o << Ord(","), CH_SPACE >> \o ElemText(r_in.x[2], << >>, -1, -1, -1)
            \o << CH_SPACE, CH_CLOSE >>

(***************************************************************************)
(* Forwarded calls (2.5.4): zpr::fwd(fmt, args...) as an argument          *)
(***************************************************************************)
ShortArg(v) == [type |-> "short", v |-> v, str |-> << >>, fmt |-> << >>, values |-> << >>]
StringArg(str) == [type |-> "string", v |-> 0, str |-> str, fmt |-> << >>, values |-> << >>]
\* zpr::fwd(fmt, values...)
fwd(fmt, values) == [type |-> "forward", v |-> 0, str |-> << >>, fmt |-> fmt, values |-> values]

FwdMaxPieces == 2
FwdMaxArgs == 2

OuterFormats ==
    { Str(<<"{", "}">>), Str(<<"z", "{", "}">>), Str(<<"{", "}", "z">>),
      Str(<<"{", "}", "{", "}">>), Str(<<"{", "{", "{", "}">>), Str(<<"{", "}", "}", "}">>) }
InnerFormats ==
    Concats({ Str(<<"y">>), Str(<<"{", "}">>), Str(<<"{", "{">>), Str(<<"}", "}">>),
              Str(<<"{", "4", "x", "}">>) }, FwdMaxPieces)
InnerArgs == [i \in 1..FwdMaxArgs |-> IF i % 2 = 1 THEN 255 ELSE -7]

\* the outer argument list: x alone, x and then a short, or a short and then x
OuterArgs(x, shape) ==
    IF shape = 1 THEN << x >>
    ELSE IF shape = 2 THEN << x, ShortArg(9) >>
    ELSE << ShortArg(9), x >>

\* zpr::sprint(outer, ..., zpr::fwd(inner, a...), ...)
RenderForward ==
    /\ r_kind = "none"
    /\ \E outer \in OuterFormats, inner \in InnerFormats, n \in 0..FwdMaxArgs, shape \in 1..3 :
            /\ r_kind' = "forward"
            /\ r_in' = [outer |-> outer, inner |-> inner, values |-> SubSeq(InnerArgs, 1, n),
                        shape |-> shape]
            /\ r_out' = print_loop_typed(Start("2.5.4", outer,
                            OuterArgs(fwd(inner, SubSeq(InnerArgs, 1, n)), shape)))
    /\ UNCHANGED << d_vars, b_vars, f_vars, k_vars, z_vars, q_vars, t_vars >>

WNext == RenderForward

SpecForward == Init /\ [][WNext]_vars

CallbackConstruct ==
    /\ k_sink.pc = "none"
    /\ \E newline \in BOOLEAN :
            k_sink' = [NoCallback EXCEPT !.pc = "open", !.newline = newline]
    /\ UNCHANGED << k_ret, r_vars, d_vars, b_vars, f_vars, z_vars, q_vars, t_vars >>

CallbackChar ==
    /\ k_sink.pc = "open"
    /\ Len(k_sink.calls) < MaxWrites
    /\ k_sink' = callback_appender_char(k_sink, Ord("x"))
    /\ UNCHANGED << k_ret, r_vars, d_vars, b_vars, f_vars, z_vars, q_vars, t_vars >>

CallbackRepeat ==
    /\ k_sink.pc = "open"
    /\ Len(k_sink.calls) < MaxWrites
    /\ \E n \in 0..MaxRun : k_sink' = callback_appender_repeat(k_sink, Ord("y"), n)
    /\ UNCHANGED << k_ret, r_vars, d_vars, b_vars, f_vars, z_vars, q_vars, t_vars >>

CallbackRange ==
    /\ k_sink.pc = "open"
    /\ Len(k_sink.calls) < MaxWrites
    /\ \E sv \in Ranges : k_sink' = callback_appender_range(k_sink, sv)
    /\ UNCHANGED << k_ret, r_vars, d_vars, b_vars, f_vars, z_vars, q_vars, t_vars >>

\* the end of cprint / cprintln: n = appender.size(); the appender's scope
\* ends; return n
CallbackReturn ==
    /\ k_sink.pc = "open"
    /\ k_ret' = k_sink.len
    /\ k_sink' = [callback_appender_destroy(k_sink) EXCEPT !.pc = "closed"]
    /\ UNCHANGED << r_vars, d_vars, b_vars, f_vars, z_vars, q_vars, t_vars >>

KNext == CallbackConstruct \/ CallbackChar \/ CallbackRepeat \/ CallbackRange \/ CallbackReturn

SpecCallback == Init /\ [][KNext]_vars

\* C16: the value cprint / cprintln returns is the number of bytes passed to
\* the user's callback during the call, the trailing newline included, which
\* cprintln delivers through one more call of the callback.
C16_CallbackByteCount ==
    (k_sink.pc = "closed") =>
        /\ k_ret = Len(Flatten(k_sink.calls))
        /\ k_sink.newline =>
                /\ Len(k_sink.calls) > 0
                /\ k_sink.calls[Len(k_sink.calls)] = << CH_NL >>

(***************************************************************************)
(* The plain text of a format string and the driver's deliveries of it.    *)
(* The plain text is made of the letters y and z, which no rendered        *)
(* argument and no sentinel contains.                                      *)
(***************************************************************************)
TextMaxPieces == 3
TextMaxArgs == 2

TextPieces == { Str(<<"y">>), Str(<<"z">>), Str(<<"{", "}">>), Str(<<"{", "{">>),
                Str(<<"}", "}">>), Str(<<"{">>), Str(<<"}">>) }
TextFormats == Concats(TextPieces, TextMaxPieces)

TNext ==
    \/ DCall(1, TextFormats, TextMaxArgs)
    \/ DSkipFmts(1)
    \/ DPrintFlush(1)
    \/ DPrint_1_4(1)

SpecText == Init /\ [][TNext]_vars

IsLetter(c) == c \in {Ord("y"), Ord("z")}
Letters(s) == SelectSeq(s, IsLetter)

\* the plain text of f from position i to the point where the scan stops:
\* the letters outside the specifiers, up to the first { that opens a
\* specifier and has no closing }
RECURSIVE PlainFrom(_, _)
PlainFrom(f, i) ==
    IF i > Len(f) THEN << >>
    ELSE IF f[i] = CH_OPEN
    THEN IF i < Len(f) /\ f[i + 1] = CH_OPEN THEN PlainFrom(f, i + 2)
         ELSE IF FirstClose(f, i) = 0 THEN << >>
         ELSE PlainFrom(f, FirstClose(f, i) + 1)
    ELSE IF IsLetter(f[i]) THEN << f[i] >> \o PlainFrom(f, i + 1)
    ELSE PlainFrom(f, i + 1)

PlainBefore(f) == PlainFrom(f, 1)

IsPrefix(x, y) == Len(x) <= Len(y) /\ SubSeq(y, 1, Len(x)) = x

\* x can be obtained from y by deleting elements
RECURSIVE IsSubseq(_, _)
IsSubseq(x, y) ==
    IF x = << >> THEN TRUE
    ELSE IF y = << >> THEN FALSE
    ELSE IF Head(x) = Head(y) THEN IsSubseq(Tail(x), Tail(y))
    ELSE IsSubseq(x, Tail(y))

\* C21: for every format string, one whose last { has no closing } included,
\* and every argument count, each plain-text byte the driver delivers is
\* delivered once and in its original order (the delivered plain text is the
\* format's plain text with bytes left out, never repeated), and no plain
\* text that precedes the point where scanning stops is left out.
C21_PlainTextOnce ==
    \A c \in Calls :
        d_call[c].pc = "done" =>
            /\ IsSubseq(Letters(d_call[c].out), Letters(d_call[c].fmt0))
            /\ IsPrefix(PlainBefore(d_call[c].fmt0), Letters(d_call[c].out))

(***************************************************************************)
(* Termination of a formatting call                                        *)
(***************************************************************************)
\* the step a running call takes next
DriverStep(s) ==
    IF s.ver = "1.4.0" THEN print_1_4(s)
    ELSE IF s.idx < Len(s.args) THEN skip_fmts(s)
    ELSE print_flush(s)

\* what is left of a call: the characters up to and including the
\* terminator that the scan has not passed and, in 2.5.4, the calls of
\* skip_fmts that have not returned
Remaining(s) ==
    (s.len + 1 - s.end) + (IF s.ver = "2.5.4" THEN Len(s.args) - s.idx ELSE 0)

\* C22: for every finite format string and every argument list the driver
\* terminates: a running call always has a next step that changes its
\* state, every iteration of the scanning loop strictly advances the scan
\* position or ends the call (when the loop condition fails, 2.5.4 ends the
\* call of skip_fmts for the current argument), and what is left of the
\* call is never negative and shrinks with every step.
C22_DriverTerminates ==
    /\ [](\A c \in Calls :
            d_call[c].pc = "run" =>
                /\ Remaining(Cur(c)) >= 0
                /\ DriverStep(Cur(c)) # Cur(c)
                /\ \/ DriverStep(Cur(c)).pc = "done"
                   \/ LoopCond(Cur(c)) /\ DriverStep(Cur(c)).end > Cur(c).end
                   \/ /\ ~LoopCond(Cur(c))
                      /\ d_call[c].ver = "2.5.4"
                      /\ DriverStep(Cur(c)).idx > Cur(c).idx)
    /\ [][\A c \in Calls :
            d_call[c].pc = "run" =>
                \/ d_call'[c].pc = "done"
                \/ /\ d_call'[c].pc = "run"
                   /\ d_st'[d_slot(c)].end >= d_st[d_slot(c)].end
                   /\ Remaining(Cur(c))' < Remaining(Cur(c))]_vars

C22_Witness ==
    \E c \in Calls :
        /\ d_call[c].pc = "done"
        /\ d_call[c].ver = "2.5.4"
        /\ d_call[c].fmt0 = Str(<<"z", "{", "}", "}">>)
        /\ Len(d_call[c].args) = MaxArgs
        /\ d_st[d_slot(c)].end = d_st[d_slot(c)].len

(***************************************************************************)
(* A format given as a view: tt::str_view(p, L) over memory that goes on   *)
(* after the view's L characters (a prefix of a longer string)             *)
(***************************************************************************)
ViewMaxPieces == 3
ViewMaxArgs == 2

\* the memory at p, up to its terminating NUL
ViewMems == Concats(TextPieces, ViewMaxPieces)

\* the state a call of detail::print(cb, str_view(p, L), args...) starts in
StartView(mem, L, args) ==
    [Start("2.5.4", SubSeq(mem, 1, L), args) EXCEPT !.fmt = mem \o << CH_NUL >>]

DCallView(c) ==
    /\ d_call[c].pc = "idle"
    /\ \E mem \in ViewMems, L \in 0..(ViewMaxPieces * 2), n \in 0..ViewMaxArgs :
            /\ L <= Len(mem)
            /\ Store(c, StartView(mem, L, SubSeq(ArgsOf(c), 1, n)))
    /\ UNCHANGED << r_vars, b_vars, f_vars, k_vars, z_vars, q_vars, t_vars >>

\* the final flush, cb(st.beg, st.len - (st.beg - st.fmt)): when st.beg is
\* past the view the size_t length wraps and the callback is handed the
\* memory from st.beg on, of which it may read any amount
DPrintFlushView(c) ==
    /\ d_call[c].pc = "run"
    /\ d_call[c].idx >= Len(d_call[c].args)
    /\ IF Cur(c).beg <= Cur(c).len
       THEN Store(c, print_flush(Cur(c)))
       ELSE \E e \in Cur(c).beg..Len(Cur(c).fmt) :
                Store(c, [Cur(c) EXCEPT !.out = @ \o Range(Cur(c), Cur(c).beg, e),
                                        !.pc = "done"])
    /\ UNCHANGED << r_vars, b_vars, f_vars, k_vars, z_vars, q_vars, t_vars >>

VNext ==
    \/ DCallView(1)
    \/ DSkipFmts(1)
    \/ DPrintFlushView(1)

SpecView == Init /\ [][VNext]_vars

\* the highest index of the format that the next iteration of skip_fmts
\* reads (-1: none): *pst->end in the loop condition, pst->end[1] after a
\* brace, and every pst->end[0] of the search for the closing brace
Examined(s) ==
    IF ~(s.end <= s.len) THEN -1
    ELSE IF At(s, s.end) = CH_OPEN
    THEN IF At(s, s.end + 1) = CH_OPEN THEN s.end + 1
         ELSE Max(s.end + 1, ScanToClose(s, s.end))
    ELSE IF At(s, s.end) = CH_CLOSE THEN s.end + 1
    ELSE s.end

\* C23: for a format given as a view of length L, the driver never examines
\* or emits a format byte at an index greater than L, the search for the
\* closing } and the look at the character after a brace included, and the
\* length passed to the final flush does not exceed the bytes that remain in
\* the view from st.beg (st.beg is not past the view).
C23_ViewBounds ==
    \A c \in Calls :
        (d_call[c].pc = "run" /\ d_call[c].ver = "2.5.4") =>
            IF d_call[c].idx < Len(d_call[c].args)
            THEN Examined(Cur(c)) <= Cur(c).len
            ELSE Cur(c).beg <= Cur(c).len

(***************************************************************************)
(* detail::print_floating: the fixed-point renderer of float and double    *)
(* (2.5.4; the rounding and the digit loops are the same in 1.4.0).  A     *)
(* value is a whole number of                                              *)
(* FloatDen-ths, n / FloatDen: such a double is exact, and so is every     *)
(* product and difference the renderer computes from it at the precisions  *)
(* used here.  The values are finite and below EXPONENTIAL_CUTOFF, and the *)
(* output is shorter than MAX_BUFFER_LEN.                                  *)
(***************************************************************************)
FloatDen == 8
DEFAULT_PRECISION == 6
MAX_PRECISION == 16

CH_g == Ord("g")
CH_f == Ord("f")

pow10(n) == 10 ^ n

Reverse(s) == [i \in 1..Len(s) |-> s[Len(s) + 1 - i]]

\* int prec; if(args.specifier == -1) args.specifier = 'g'; negative; value =
\* -value; the '0' written for each unit of precision above 16
FloatStart(n, args0) ==
    [args     |-> [args0 EXCEPT !.specifier = IF @ = -1 THEN CH_g ELSE @],
     negative |-> n < 0,
     value    |-> IF n < 0 THEN -n ELSE n,
     prec     |-> Min(IF have_precision(args0) THEN args0.precision ELSE DEFAULT_PRECISION,
                      MAX_PRECISION),
     buf      |-> Rep(CH_0, Max((IF have_precision(args0) THEN args0.precision
                                 ELSE DEFAULT_PRECISION) - MAX_PRECISION, 0)),
     whole    |-> 0,
     frac     |-> 0]

\* tmp = (value - whole) * pow10[prec], a numerator over FloatDen
FloatTmp(p) == (p.value % FloatDen) * pow10(p.prec)

\* static_cast<unsigned long>(tmp)
FloatTrunc(p) == FloatTmp(p) \div FloatDen

\* diff = tmp - frac, a numerator over FloatDen
FloatDiff(p) == FloatTmp(p) % FloatDen

\* a rounding that takes every value at or above the half up
FloatRound_half_up(p) ==
    IF 2 * FloatDiff(p) >= FloatDen
    THEN IF FloatTrunc(p) + 1 >= pow10(p.prec)
         THEN [p EXCEPT !.frac = 0, !.whole = (p.value \div FloatDen) + 1]
         ELSE [p EXCEPT !.frac = FloatTrunc(p) + 1, !.whole = p.value \div FloatDen]
    ELSE [p EXCEPT !.frac = FloatTrunc(p), !.whole = p.value \div FloatDen]

\* whole and frac after the rounding of frac
FloatRound(p) ==
    IF 2 * FloatDiff(p) > FloatDen
    THEN IF FloatTrunc(p) + 1 >= pow10(p.prec)
         THEN [p EXCEPT !.frac = 0, !.whole = (p.value \div FloatDen) + 1]
         ELSE [p EXCEPT !.frac = FloatTrunc(p) + 1, !.whole = p.value \div FloatDen]
    ELSE IF 2 * FloatDiff(p) < FloatDen
    THEN [p EXCEPT !.frac = FloatTrunc(p), !.whole = p.value \div FloatDen]
    ELSE IF FloatTrunc(p) = 0 \/ FloatTrunc(p) % 2 = 1
    THEN [p EXCEPT !.frac = FloatTrunc(p) + 1, !.whole = p.value \div FloatDen]
    ELSE [p EXCEPT !.frac = FloatTrunc(p), !.whole = p.value \div FloatDen]

\* the loop over the digits of frac, lowest first: buf is what it wrote and
\* count what is left of the precision
RECURSIVE FractionLoop(_, _, _, _)
FractionLoop(buf, frac, count, flag) ==
    IF frac \div 10 = 0
    THEN [buf   |-> IF flag /\ frac % 10 = 0 THEN buf ELSE Append(buf, CH_0 + (frac % 10)),
          count |-> count - 1]
    ELSE FractionLoop(IF flag /\ frac % 10 = 0 THEN buf ELSE Append(buf, CH_0 + (frac % 10)),
                      frac \div 10, count - 1, flag /\ frac % 10 = 0)

\* the fractional part of precision prec >= 1 as the buffer holds it (from
\* the last digit to the first, then the decimal point)
print_floating_fraction(frac, prec, specifier) ==
    FractionLoop(<< >>, frac, prec, specifier \in {CH_g, Ord("G")}).buf
    \o Rep(CH_0, Max(FractionLoop(<< >>, frac, prec, specifier \in {CH_g, Ord("G")}).count, 0))
    \o << CH_DOT >>

\* if(prec == 0U) the whole part takes the tie, else the fractional part is
\* written
FloatFraction(p) ==
    IF p.prec = 0
    THEN [p EXCEPT !.whole = IF 2 * (p.value - FloatDen * p.whole) >= FloatDen /\ @ % 2 = 1
                             THEN @ + 1 ELSE @]
    ELSE [p EXCEPT !.buf = @ \o print_floating_fraction(p.frac, p.prec, p.args.specifier)]

\* do whole part, number is reversed
FloatWhole(p) == [p EXCEPT !.buf = @ \o Reverse(DecStr(p.whole))]

\* pad leading zeros, then the sign
FloatSign(p) ==
    [p EXCEPT !.buf =
        (IF zero_pad(p.args) /\ positive_width(p.args)
         THEN @ \o Rep(CH_0, Max((p.args.width
                                  - (IF have_width(p.args)
                                        /\ (p.negative \/ prepend_plus(p.args)
                                                \/ prepend_space(p.args))
                                     THEN 1 ELSE 0)) - Len(@), 0))
         ELSE @)
        \o (IF p.negative THEN << CH_MINUS >>
            ELSE IF prepend_plus(p.args) THEN << CH_PLUS >>
            ELSE IF prepend_space(p.args) THEN << CH_SPACE >>
            ELSE << >>)]

\* reverse it; the padding; cb(buf, len)
FloatEmit(p) ==
    (IF ~zero_pad(p.args) /\ positive_width(p.args)
     THEN << CbRepeat(CH_SPACE, Max(0, p.args.width - Len(p.buf))) >> ELSE << >>)
    \o (IF zero_pad(p.args) /\ positive_width(p.args)
        THEN << CbRepeat(CH_0, Max(0, p.args.width - Len(p.buf))) >> ELSE << >>)
    \o << CbRange(Reverse(p.buf)) >>
    \o (IF ~(zero_pad(p.args) /\ positive_width(p.args)) /\ negative_width(p.args)
        THEN << CbRepeat(CH_SPACE, Max(0, p.args.width - Len(p.buf))) >> ELSE << >>)

\* print_floating(cb, n / FloatDen, args): the calls of the callback
print_floating(n, args) ==
    FloatEmit(FloatSign(FloatWhole(FloatFraction(FloatRound(FloatStart(n, args))))))

(***************************************************************************)
(* Floating-point rendering calls                                          *)
(***************************************************************************)
MaxEighths == 44
MaxFloatPrec == 3

FloatValues == -MaxEighths..MaxEighths
FloatPrecs == {-1} \cup (0..MaxFloatPrec)
FloatTypes == {-1, CH_g, CH_f}
FloatFlags == { << >>, << CH_0 >>, << CH_PLUS >> }
FloatWidths == {-1, 6}

\* zpr::sprint("{...}", n / FloatDen) for a double
RenderFloat ==
    /\ r_kind = "none"
    /\ \E n \in FloatValues, fl \in FloatFlags, w \in FloatWidths, p \in FloatPrecs,
          t \in FloatTypes :
            /\ r_kind' = "float"
            /\ r_in' = [NoInput EXCEPT !.v = n, !.fl = fl, !.w = w, !.p = p, !.t = t]
            /\ r_out' = print_floating(n, parse_fmt_spec(Token(fl, w, p, t)))
    /\ UNCHANGED << d_vars, b_vars, f_vars, k_vars, z_vars, q_vars, t_vars >>

\* the fractional part alone, for every rounded frac below pow10[prec]
RenderFraction ==
    /\ r_kind = "none"
    /\ \E p \in 1..MaxFloatPrec, t \in {CH_g, Ord("G"), CH_f} :
         \E frac \in 0..(pow10(p) - 1) :
            /\ r_kind' = "fraction"
            /\ r_in' = [NoInput EXCEPT !.v = frac, !.p = p, !.t = t]
            /\ r_out' = << CbRange(Reverse(print_floating_fraction(frac, p, t))) >>
    /\ UNCHANGED << d_vars, b_vars, f_vars, k_vars, z_vars, q_vars, t_vars >>

FNextFloat == RenderFloat \/ RenderFraction

SpecFloat == Init /\ [][FNextFloat]_vars

\* the digits after the decimal point of text (none when it has no point)
RECURSIVE FractionText(_)
FractionText(text) ==
    IF text = << >> THEN << >>
    ELSE IF Head(text) = CH_DOT THEN Tail(text)
    ELSE FractionText(Tail(text))

\* the precision print_floating works with
FloatPrecision == IF r_in.p >= 0 THEN r_in.p ELSE DEFAULT_PRECISION

\* C24: in g-style mode (the type g or G, and the default when no type is
\* given), for every precision and every rounded scaled fraction in
\* [0, 10^precision), 0 included, the fractional digit string the fixed-point
\* renderer emits has no trailing '0'.
C24_NoTrailingZero ==
    (\/ r_kind = "float" /\ r_in.t \in {-1, CH_g} /\ FloatPrecision >= 1
     \/ r_kind = "fraction" /\ r_in.t \in {CH_g, Ord("G")}) =>
        LET digits == FractionText(string_appender(r_out))
        IN  digits = << >> \/ digits[Len(digits)] # CH_0

\* the integer nearest to n / FloatDen >= 0, the even one of the two when
\* n / FloatDen is halfway between them
NearestEven(n) ==
    IF 2 * (n % FloatDen) < FloatDen THEN n \div FloatDen
    ELSE IF 2 * (n % FloatDen) > FloatDen THEN (n \div FloatDen) + 1
    ELSE IF (n \div FloatDen) % 2 = 0 THEN n \div FloatDen
    ELSE (n \div FloatDen) + 1

\* C25: with precision 0 the fixed-point renderer rounds a non-negative
\* value to the nearest integer, ties to even: a value halfway between n and
\* n + 1 renders as n when n is even and as n + 1 when n is odd (2.5 -> "2",
\* 3.5 -> "4"); the output is that integer's digits, preceded by nothing but
\* the padding and the sign the flags ask for.
C25_TiesToEven ==
    (r_kind = "float" /\ r_in.p = 0 /\ r_in.v >= 0) =>
        LET text == string_appender(r_out)
            d    == DecStr(NearestEven(r_in.v))
        IN  /\ Len(text) >= Len(d)
            /\ SubSeq(text, Len(text) - Len(d) + 1, Len(text)) = d
            /\ \A i \in 1..(Len(text) - Len(d)) : text[i] \in {CH_SPACE, CH_0, CH_PLUS}
            /\ (r_in.fl = << >> /\ r_in.w = -1) => text = d
            /\ (2 * r_in.v = 5 * FloatDen /\ r_in.fl = << >> /\ r_in.w = -1) => text = Str(<< "2" >>)
            /\ (2 * r_in.v = 7 * FloatDen /\ r_in.fl = << >> /\ r_in.w = -1) => text = Str(<< "4" >>)

C25_Witness ==
    /\ r_kind = "float"
    /\ r_in.p = 0
    /\ 2 * r_in.v = 5 * FloatDen
    /\ r_in.fl = << >>
    /\ r_in.w = -1
    /\ string_appender(r_out) = Str(<< "2" >>)

(***************************************************************************)
(* The digit generators with ZPR_DECIMAL_LOOKUP_TABLE and                  *)
(* ZPR_HEXADECIMAL_LOOKUP_TABLE set to 0: one digit per iteration          *)
(***************************************************************************)
\* do { *(--ptr) = '0' + (value % 10); value /= 10; } while(value > 0);
RECURSIVE DecimalLoop_no_table(_)
DecimalLoop_no_table(value) ==
    IF value \div 10 > 0
    THEN DecimalLoop_no_table(value \div 10) \o << ToChar(CH_0 + (value % 10)) >>
    ELSE << ToChar(CH_0 + (value % 10)) >>

\* do { *(--ptr) = hex_digit(value & 0xF); value /= 0x10; } while(value > 0);
RECURSIVE print_hex_integer_no_table(_)
print_hex_integer_no_table(value) ==
    IF value \div 16 > 0
    THEN print_hex_integer_no_table(value \div 16) \o << ToChar(hex_digit(value % 16)) >>
    ELSE << ToChar(hex_digit(value % 16)) >>

\* 1.4.0: while(value > 0) { '0' + (value % 10); value /= 10; }
RECURSIVE DecimalLoop_1_4_no_table(_)
DecimalLoop_1_4_no_table(value) ==
    IF value > 0
    THEN DecimalLoop_1_4_no_table(value \div 10) \o << ToChar(CH_0 + (value % 10)) >>
    ELSE << >>

\* 1.4.0: while(value > 0) { hex_digit(value % 0x10); value /= 0x10; }
RECURSIVE print_hex_integer_1_4_no_table(_)
print_hex_integer_1_4_no_table(value) ==
    IF value > 0
    THEN print_hex_integer_1_4_no_table(value \div 16)
            \o << ToChar(hex_digit_1_4(value % 16)) >>
    ELSE << >>

MaxDigitValue == 1100

DigitValues == (0..MaxDigitValue) \cup {4095, 4096, 9999, 10000, 43981, TMax, UMax}

\* the digits of value in the given base, by the build with the lookup
\* tables (table) and by the build without them (loop)
GenerateDigits ==
    /\ r_kind = "none"
    /\ \E value \in DigitValues :
            /\ r_kind' = "digits"
            /\ r_in' = [NoInput EXCEPT !.v = value]
            /\ r_out' = [dec      |-> [table |-> DecimalLoop(value),
                                       loop  |-> DecimalLoop_no_table(value)],
                         hex      |-> [table |-> print_hex_integer(value),
                                       loop  |-> print_hex_integer_no_table(value)],
                         dec_1_4  |-> [table |-> DecimalLoop_1_4(value),
                                       loop  |-> DecimalLoop_1_4_no_table(value)],
                         hex_1_4  |-> [table |-> print_hex_integer_1_4(value),
                                       loop  |-> print_hex_integer_1_4_no_table(value)]]
    /\ UNCHANGED << d_vars, b_vars, f_vars, k_vars, z_vars, q_vars, t_vars >>

SpecDigits == Init /\ [][GenerateDigits]_vars

\* C26: for every non-negative value the lookup-table variants of the
\* decimal and hexadecimal digit generators produce the same digit string
\* as the divide-by-base variants built when the lookup tables are off.
C26_TableEquivalence ==
    r_kind = "digits" =>
        \A g \in {"dec", "hex", "dec_1_4", "hex_1_4"} : r_out[g].table = r_out[g].loop

\* C27: for every signed integer value of the native width, the most
\* negative value -2^(w-1) whose negation wraps modulo 2^w included, the
\* decimal rendering of a negative value is '-' followed by the decimal
\* digits of the value's magnitude.
C27_MostNegative ==
    (r_kind = "int" /\ r_in.sgn /\ r_in.v < 0 /\ r_in.t = -1
        /\ r_in.fl = << >> /\ r_in.w = -1 /\ r_in.p = -1) =>
        string_appender(r_out) = << CH_MINUS >> \o DecStr(-r_in.v)

(***************************************************************************)
(* zst::Result<T, E>.  An object is its state and the payload of the live  *)
(* union member; Result<void, E> has the same state transitions.           *)
(***************************************************************************)
ResultPayloads == {7, 9}

\* Result(Ok<T1>&& ok) : state(STATE_VAL), val(x)
Result_Ok(x) == [live |-> TRUE, state |-> STATE_VAL, val |-> x, err |-> 0]

\* Result(Err<E1>&& err) : state(STATE_ERR), err(e)
Result_Err(e) == [live |-> TRUE, state |-> STATE_ERR, val |-> 0, err |-> e]

\* Result(const Result& other), and the assignments made by
\* operator=(const Result& other), to this
Result_copy(other) ==
    [live  |-> TRUE,
     state |-> other.state,
     val   |-> IF other.state = STATE_VAL THEN other.val ELSE 0,
     err   |-> IF other.state = STATE_ERR THEN other.err ELSE 0]

\* what Result(Result&& other) and operator=(Result&& other) leave in other:
\* other.state = STATE_NONE
Result_moved_from(other) == [other EXCEPT !.state = STATE_NONE]

\* Result<T, E>(Ok(x)) or Result<T, E>(Err(e)) constructed in free storage
ResultConstruct ==
    /\ \E o \in Objects, x \in ResultPayloads, ok \in BOOLEAN :
            /\ ~z_res[o].live
            /\ z_res' = [z_res EXCEPT ![o] = IF ok THEN Result_Ok(x) ELSE Result_Err(x)]
    /\ UNCHANGED << r_vars, d_vars, b_vars, f_vars, k_vars, q_vars, t_vars >>

\* Result a(b)
ResultCopyConstruct ==
    /\ \E o \in Objects, other \in Objects :
            /\ ~z_res[o].live
            /\ z_res[other].live
            /\ z_res' = [z_res EXCEPT ![o] = Result_copy(z_res[other])]
    /\ UNCHANGED << r_vars, d_vars, b_vars, f_vars, k_vars, q_vars, t_vars >>

\* Result a(std::move(b))
ResultMoveConstruct ==
    /\ \E o \in Objects, other \in Objects :
            /\ ~z_res[o].live
            /\ z_res[other].live
            /\ z_res' = [z_res EXCEPT ![o] = Result_copy(z_res[other]),
                                      ![other] = Result_moved_from(z_res[other])]
    /\ UNCHANGED << r_vars, d_vars, b_vars, f_vars, k_vars, q_vars, t_vars >>

\* a = b; nothing happens when this == &other
ResultCopyAssign ==
    /\ \E o \in Objects, other \in Objects :
            /\ z_res[o].live
            /\ z_res[other].live
            /\ z_res' = IF o = other THEN z_res
                        ELSE [z_res EXCEPT ![o] = Result_copy(z_res[other])]
    /\ UNCHANGED << r_vars, d_vars, b_vars, f_vars, k_vars, q_vars, t_vars >>

\* a = std::move(b); nothing happens when this == &other
ResultMoveAssign ==
    /\ \E o \in Objects, other \in Objects :
            /\ z_res[o].live
            /\ z_res[other].live
            /\ z_res' = IF o = other THEN z_res
                        ELSE [z_res EXCEPT ![o] = Result_copy(z_res[other]),
                                           ![other] = Result_moved_from(z_res[other])]
    /\ UNCHANGED << r_vars, d_vars, b_vars, f_vars, k_vars, q_vars, t_vars >>

\* ~Result()
ResultDestroy ==
    /\ \E o \in Objects :
            /\ z_res[o].live
            /\ z_res' = [z_res EXCEPT ![o] = NoResult]
    /\ UNCHANGED << r_vars, d_vars, b_vars, f_vars, k_vars, q_vars, t_vars >>

ZNext ==
    \/ ResultConstruct
    \/ ResultCopyConstruct
    \/ ResultMoveConstruct
    \/ ResultCopyAssign
    \/ ResultMoveAssign
    \/ ResultDestroy

SpecResult == Init /\ [][ZNext]_vars

\* C28: after any sequence of construction from Ok/Err, copy construction,
\* copy assignment, move construction and move assignment, every Result
\* object that still exists, a moved-from one included, holds a value or
\* holds an error, never neither.
C28_ValueOrError ==
    \A o \in Objects : z_res[o].live => z_res[o].state \in {STATE_VAL, STATE_ERR}

\* ---------------------------------------------------------------------
\* zmt::semaphore and zmt::wait_queue (src/zmt.h)
\* ---------------------------------------------------------------------

MaxPushes == 3
QElems == {1, 2}

\* semaphore::post: value += num under the semaphore's mutex
semaphore_post(wq, num) == [wq EXCEPT !.sem = @ + num]

\* semaphore::wait, once value is not 0: value -= 1
semaphore_wait(wq) == [wq EXCEPT !.sem = @ - 1]

\* queue.push_back(x) / queue.emplace_back(xs...) under the queue's mutex
push_back(wq, x) == [wq EXCEPT !.queue = Append(@, x)]

\* queue.pop_front() under the queue's mutex
pop_front(wq) == [wq EXCEPT !.queue = Tail(@)]

\* an exchange that reads pending_notifies and leaves it as it was
exchange_kept(wq) == wq

\* pending_notifies.exchange(0): the value left behind
exchange(wq) == [wq EXCEPT !.pending_notifies = 0]

\* push(const T&), push(T&&), emplace(xs...): the element is queued
QPush(t) ==
    /\ q_wait.pc[t] = "idle"
    /\ q_wait.pushed < MaxPushes
    /\ \E x \in QElems :
           q_wait' = [q_wait EXCEPT !.wq = push_back(@, x),
                                    !.pushed = @ + 1,
                                    !.pc[t] = "post"]
    /\ UNCHANGED << r_vars, d_vars, b_vars, f_vars, k_vars, z_vars, t_vars >>

\* push / emplace: this->sem.post()
QPost(t) ==
    /\ q_wait.pc[t] = "post"
    /\ q_wait' = [q_wait EXCEPT !.wq = semaphore_post(@, 1), !.pc[t] = "idle"]
    /\ UNCHANGED << r_vars, d_vars, b_vars, f_vars, k_vars, z_vars, t_vars >>

\* push_quiet(const T&), push_quiet(T&&), emplace_quiet(xs...): the element
\* is queued
QPushQuiet(t) ==
    /\ q_wait.pc[t] = "idle"
    /\ q_wait.pushed < MaxPushes
    /\ \E x \in QElems :
           q_wait' = [q_wait EXCEPT !.wq = push_back(@, x),
                                    !.pushed = @ + 1,
                                    !.pc[t] = "quiet"]
    /\ UNCHANGED << r_vars, d_vars, b_vars, f_vars, k_vars, z_vars, t_vars >>

\* push_quiet / emplace_quiet: this->pending_notifies++
QPending(t) ==
    /\ q_wait.pc[t] = "quiet"
    /\ q_wait' = [q_wait EXCEPT !.wq.pending_notifies = @ + 1, !.pc[t] = "idle"]
    /\ UNCHANGED << r_vars, d_vars, b_vars, f_vars, k_vars, z_vars, t_vars >>

\* notify_pending: auto tmp = this->pending_notifies.exchange(0)
QExchange(t) ==
    /\ q_wait.pc[t] = "idle"
    /\ q_wait' = [q_wait EXCEPT !.tmp[t] = q_wait.wq.pending_notifies,
                                !.wq = exchange(@),
                                !.pc[t] = "notify"]
    /\ UNCHANGED << r_vars, d_vars, b_vars, f_vars, k_vars, z_vars, t_vars >>

\* notify_pending: this->sem.post(tmp)
QNotify(t) ==
    /\ q_wait.pc[t] = "notify"
    /\ q_wait' = [q_wait EXCEPT !.wq = semaphore_post(@, q_wait.tmp[t]),
                                !.tmp[t] = 0,
                                !.pc[t] = "idle"]
    /\ UNCHANGED << r_vars, d_vars, b_vars, f_vars, k_vars, z_vars, t_vars >>

\* pop: this->sem.wait() returns once the count is not 0
QWait(t) ==
    /\ q_wait.pc[t] = "idle"
    /\ q_wait.wq.sem > 0
    /\ q_wait' = [q_wait EXCEPT !.wq = semaphore_wait(@), !.pc[t] = "pop"]
    /\ UNCHANGED << r_vars, d_vars, b_vars, f_vars, k_vars, z_vars, t_vars >>

\* pop: queue.front() and queue.pop_front(); on an empty deque both are
\* undefined, which underflow records
QPopFront(t) ==
    /\ q_wait.pc[t] = "pop"
    /\ q_wait' = IF q_wait.wq.queue = << >>
                 THEN [q_wait EXCEPT !.underflow = TRUE, !.pc[t] = "idle"]
                 ELSE [q_wait EXCEPT !.wq = pop_front(@), !.pc[t] = "idle"]
    /\ UNCHANGED << r_vars, d_vars, b_vars, f_vars, k_vars, z_vars, t_vars >>

QNext ==
    \E t \in QThreads :
        \/ QPush(t)
        \/ QPost(t)
        \/ QPushQuiet(t)
        \/ QPending(t)
        \/ QExchange(t)
        \/ QNotify(t)
        \/ QWait(t)
        \/ QPopFront(t)

SpecQueue == Init /\ [][QNext]_vars

\* the poppers that have passed the semaphore and not yet dequeued
Popping == Cardinality({t \in QThreads : q_wait.pc[t] = "pop"})

\* C30: under every interleaving of push, emplace, push_quiet,
\* emplace_quiet, notify_pending and pop by concurrent threads on one
\* wait_queue, no pop takes an element from an empty queue: the semaphore
\* count plus the poppers between the semaphore and the dequeue never
\* exceeds the number of queued elements.
C30_NoUnderflow ==
    /\ ~q_wait.underflow
    /\ q_wait.wq.sem + Popping <= Len(q_wait.wq.queue)

\* every element was pushed; all but one were popped again, and the last,
\* pushed quietly, waits for the post of a notify_pending in flight
C30_Witness ==
    /\ q_wait.pushed = MaxPushes
    /\ Len(q_wait.wq.queue) = 1
    /\ q_wait.wq.sem = 0
    /\ Popping = 0
    /\ \E t \in QThreads : q_wait.pc[t] = "notify" /\ q_wait.tmp[t] = 1

\* ---------------------------------------------------------------------
\* zmt::ThreadPool (src/zmt.h)
\* ---------------------------------------------------------------------

MaxJobs == 2
MaxResizes == 2
JobIds == 1..MaxJobs

\* Job(unique_function&& f): a job that runs f
Job(f) == [should_stop |-> FALSE, func |-> f]

\* Job::stop(): should_stop = true
Job_stop == [should_stop |-> TRUE, func |-> 0]

\* if(num == 0) num = 1
WorkerCount(num) == IF num = 0 THEN 1 ELSE num

\* new std::thread[num_workers]: threads that are not running yet
new_workers == [w \in PoolWorkers |-> [pc |-> "none", job |-> NoJob]]

\* ThreadPool(num): num_workers and workers are set, start_workers begins
TPConstruct ==
    /\ t_pool.main = "none"
    /\ \E num \in 0..MaxPoolWorkers :
           t_pool' = [t_pool EXCEPT !.num_workers = WorkerCount(num),
                                    !.workers = new_workers,
                                    !.i = 1,
                                    !.main = "start"]
    /\ UNCHANGED << r_vars, d_vars, b_vars, f_vars, k_vars, z_vars, q_vars >>

\* start_workers: workers[i] = std::thread(worker); after the last one the
\* constructor or set_max_workers returns
TPStart ==
    /\ t_pool.main = "start"
    /\ t_pool' = [t_pool EXCEPT
           !.workers[t_pool.i].pc = "wait",
           !.i = @ + 1,
           !.main = IF t_pool.i = t_pool.num_workers THEN "idle" ELSE "start",
           !.resized = IF t_pool.i = t_pool.num_workers /\ t_pool.after = "resize"
                       THEN @ + 1 ELSE @,
           !.after = IF t_pool.i = t_pool.num_workers THEN "none" ELSE @]
    /\ UNCHANGED << r_vars, d_vars, b_vars, f_vars, k_vars, z_vars, q_vars >>

\* run(fn): jobs.emplace(...) queues the job under the queue's mutex
TPRun ==
    /\ t_pool.main = "idle"
    /\ \E j \in JobIds \ t_pool.submitted :
           t_pool' = [t_pool EXCEPT
               !.jobs = push_back(@, Job(j)),
               !.submitted = @ \cup {j},
               !.late = IF t_pool.resized > 0 THEN @ \cup {j} ELSE @,
               !.main = "run_post"]
    /\ UNCHANGED << r_vars, d_vars, b_vars, f_vars, k_vars, z_vars, q_vars >>

\* run(fn): the sem.post() of jobs.emplace, then return fut
TPRunPost ==
    /\ t_pool.main = "run_post"
    /\ t_pool' = [t_pool EXCEPT !.jobs = semaphore_post(@, 1), !.main = "idle"]
    /\ UNCHANGED << r_vars, d_vars, b_vars, f_vars, k_vars, z_vars, q_vars >>

\* set_max_workers(num): stop_all begins, jobs.push(Job::stop()) queues
\* the stop job
TPSetMaxWorkers ==
    /\ t_pool.main = "idle"
    /\ t_pool.resized < MaxResizes
    /\ \E num \in 0..MaxPoolWorkers :
           t_pool' = [t_pool EXCEPT !.jobs = push_back(@, Job_stop),
                                    !.num = num,
                                    !.after = "resize",
                                    !.main = "stop_post"]
    /\ UNCHANGED << r_vars, d_vars, b_vars, f_vars, k_vars, z_vars, q_vars >>

\* stop_all: the sem.post() of jobs.push, then the join loop begins
TPStopPost ==
    /\ t_pool.main = "stop_post"
    /\ t_pool' = [t_pool EXCEPT !.jobs = semaphore_post(@, 1),
                                !.i = 1,
                                !.main = "join"]
    /\ UNCHANGED << r_vars, d_vars, b_vars, f_vars, k_vars, z_vars, q_vars >>

\* stop_all: workers[i].join() returns once worker i has returned. After
\* the last join set_max_workers deletes the threads, makes
\* WorkerCount(num) new ones and begins start_workers
TPJoin ==
    /\ t_pool.main = "join"
    /\ t_pool.workers[t_pool.i].pc = "exit"
    /\ t_pool' =
           IF t_pool.i < t_pool.num_workers
           THEN [t_pool EXCEPT !.workers[t_pool.i].pc = "joined", !.i = @ + 1]
           ELSE [t_pool EXCEPT !.workers = new_workers,
                               !.num_workers = WorkerCount(t_pool.num),
                               !.i = 1,
                               !.main = "start"]
    /\ UNCHANGED << r_vars, d_vars, b_vars, f_vars, k_vars, z_vars, q_vars >>

\* worker: jobs.pop() passes sem.wait()
TPWait(w) ==
    /\ t_pool.workers[w].pc = "wait"
    /\ t_pool.jobs.sem > 0
    /\ t_pool' = [t_pool EXCEPT !.jobs = semaphore_wait(@),
                                !.workers[w].pc = "front"]
    /\ UNCHANGED << r_vars, d_vars, b_vars, f_vars, k_vars, z_vars, q_vars >>

\* worker: jobs.pop() takes the front job; if(job.should_stop) follows
TPFront(w) ==
    /\ t_pool.workers[w].pc = "front"
    /\ t_pool' =
           IF t_pool.jobs.queue = << >>
           THEN [t_pool EXCEPT !.underflow = TRUE, !.workers[w].pc = "exit"]
           ELSE [t_pool EXCEPT
                    !.jobs = pop_front(@),
                    !.workers[w].job = Head(t_pool.jobs.queue),
                    !.workers[w].pc = IF Head(t_pool.jobs.queue).should_stop
                                      THEN "repush" ELSE "run"]
    /\ UNCHANGED << r_vars, d_vars, b_vars, f_vars, k_vars, z_vars, q_vars >>

\* worker: job.func() runs fn and sets the future
TPJobFunc(w) ==
    /\ t_pool.workers[w].pc = "run"
    /\ t_pool' = [t_pool EXCEPT !.ready = @ \cup {t_pool.workers[w].job.func},
                                !.workers[w].job = NoJob,
                                !.workers[w].pc = "wait"]
    /\ UNCHANGED << r_vars, d_vars, b_vars, f_vars, k_vars, z_vars, q_vars >>

\* worker, on a stop job: tp->jobs.push(Job::stop()) queues a stop job
TPRepush(w) ==
    /\ t_pool.workers[w].pc = "repush"
    /\ t_pool' = [t_pool EXCEPT !.jobs = push_back(@, Job_stop),
                                !.workers[w].job = NoJob,
                                !.workers[w].pc = "repost"]
    /\ UNCHANGED << r_vars, d_vars, b_vars, f_vars, k_vars, z_vars, q_vars >>

\* worker, on a stop job: the sem.post() of that push, then break
TPRepost(w) ==
    /\ t_pool.workers[w].pc = "repost"
    /\ t_pool' = [t_pool EXCEPT !.jobs = semaphore_post(@, 1),
                                !.workers[w].pc = "exit"]
    /\ UNCHANGED << r_vars, d_vars, b_vars, f_vars, k_vars, z_vars, q_vars >>

\* the steps of the owning thread inside a call
TPMainStep == TPStart \/ TPRunPost \/ TPStopPost \/ TPJoin

\* the steps of worker w
TPWorkerStep(w) ==
    TPWait(w) \/ TPFront(w) \/ TPJobFunc(w) \/ TPRepush(w) \/ TPRepost(w)

TPNext ==
    \/ TPConstruct
    \/ TPStart
    \/ TPRun
    \/ TPRunPost
    \/ TPSetMaxWorkers
    \/ TPStopPost
    \/ TPJoin
    \/ \E w \in PoolWorkers :
           \/ TPWait(w)
           \/ TPFront(w)
           \/ TPJobFunc(w)
           \/ TPRepush(w)
           \/ TPRepost(w)

\* a call in progress goes on, and every running thread is scheduled
SpecPool ==
    /\ Init
    /\ [][TPNext]_vars
    /\ WF_vars(TPMainStep)
    /\ \A w \in PoolWorkers : WF_vars(TPWorkerStep(w))

\* C29: every job passed to run() after a set_max_workers(n) returned is
\* eventually executed and its future becomes ready: the stop job that the
\* preceding stop_all leaves in the queue does not make the newly started
\* workers exit.
C29_LateJobsRun ==
    \A j \in JobIds : (j \in t_pool.late) ~> (j \in t_pool.ready)

====
